---------------------------- MODULE Spec2Model ----------------------------
(***************************************************************************)
(* Rental-dashboard: data preparation (real_estate_logic.py), the metrics  *)
(* engine calculate_financial_metrics, the Deal Analyzer tab, the sidebar  *)
(* and the main entry point of dashboard_app.py, and the downloads of      *)
(* data_fetcher.py.                                                        *)
(*                                                                         *)
(* Number representation.  The program computes in binary floating point.  *)
(* The model computes in decimal fixed point:                              *)
(*   money                      integer cents            (MoneyScale)      *)
(*   rates, percentages, growth factors   1/1000000      (RateScale)       *)
(*   ratios of two money values           1/10000        (RatioScale)      *)
(* A pandas cell is a record [kind, val]: kind "num" carries val, kinds    *)
(* "nan", "inf", "ninf" are the IEEE specials pandas produces, kind "txt"  *)
(* is a non-numeric CSV cell.  Python scalars are plain integers and a     *)
(* scalar division by zero is the exception ZeroDivisionError.             *)
(***************************************************************************)
EXTENDS Integers, Sequences, FiniteSets, TLC

VARIABLES
    pc,             \* position of the run
    session_state,  \* st.session_state: the assumption keys
    home_df,        \* home table as loaded, or None
    rent_df,        \* rent table as loaded, or None
    valid_data,     \* table returned by prepare_merged_data, or None
    latest_month,   \* period returned by prepare_merged_data, or None
    national_df,    \* table returned by get_national_training_data, or None
    call_params,    \* the params dict built for calculate_financial_metrics, or None
    results,        \* table returned by calculate_financial_metrics, or None
    selected,       \* the view chosen in st.radio
    model,          \* the national rent model of this run
    deal,           \* what run_deal_analyzer_tab computed
    screen,         \* what the run rendered, in order
    adjustment,     \* the ZIP adjustment the Deal Analyzer applied, or None
    files,          \* data_fetcher.py: what is stored at each path of the data directory
    last_call,      \* data_fetcher.py: the last call, Some([fn, before, attempts, returned])
    widgets         \* the sidebar's percent sliders: per session key, Some([state, arg]) once created

vars == <<pc, session_state, home_df, rent_df, valid_data, latest_month,
          national_df, call_params, results, selected, model, deal, screen,
          adjustment,
          files,
          last_call,
          widgets>>

\* Python's None, and a value that is not None
None == [kind |-> "none"]
Some(v) == [kind |-> "some", val |-> v]
IsNone(x) == x.kind = "none"

-----------------------------------------------------------------------------
(* Fixed-point arithmetic                                                  *)

MoneyScale == 10 * 10
RateScale == 1000 * 1000
RatioScale == 100 * 100

Num(v) == [kind |-> "num", val |-> v]
NaN == [kind |-> "nan", val |-> 0]
PosInf == [kind |-> "inf", val |-> 0]
NegInf == [kind |-> "ninf", val |-> 0]
Txt == [kind |-> "txt", val |-> 0]

IsNum(x) == x.kind = "num"

Dollars(d) == d * MoneyScale
Pct(p) == p * RateScale
\* a decimal fraction n / 10^k, e.g. Frac(15, 1000) = 0.015
Frac(n, d) == (n * RateScale) \div d

\* <<q, rem>> with r * b = q * c + rem, for 0 <= r < c and b >= 0, digit by
\* digit so that no intermediate exceeds 19 * c
RECURSIVE MulQR(_, _, _)
MulQR(r, b, c) ==
    IF b = 0 THEN <<0, 0>>
    ELSE LET p == MulQR(r, b \div 10, c)
             t == 10 * p[2] + r * (b % 10)
         IN  <<10 * p[1] + t \div c, t % c>>

\* floor(a * b / c) for b >= 0, c > 0
MulDiv(a, b, c) == (a \div c) * b + MulQR(a % c, b, c)[1]

\* x ** n on RateScale values, by squaring
RECURSIVE PowFx(_, _)
PowFx(x, n) ==
    IF n = 0 THEN RateScale
    ELSE LET h == PowFx(x, n \div 2)
             sq == MulDiv(h, h, RateScale)
         IN  IF n % 2 = 0 THEN sq ELSE MulDiv(sq, x, RateScale)

\* float arithmetic on cells: NaN propagates, x / 0 is NaN or +-inf
FAdd(a, b) ==
    IF a.kind = "nan" \/ b.kind = "nan" THEN NaN
    ELSE IF IsNum(a) /\ IsNum(b) THEN Num(a.val + b.val)
    ELSE IF IsNum(a) THEN b
    ELSE IF IsNum(b) \/ a.kind = b.kind THEN a
    ELSE NaN

FNeg(a) ==
    IF IsNum(a) THEN Num(0 - a.val)
    ELSE IF a.kind = "inf" THEN NegInf
    ELSE IF a.kind = "ninf" THEN PosInf
    ELSE a

FSub(a, b) == FAdd(a, FNeg(b))

\* the factor left out
FTimes_once(a, k) == a

\* a * k for a Python number k given as an integer
FTimes(a, k) ==
    IF IsNum(a) THEN Num(a.val * k)
    ELSE IF a.kind = "nan" \/ k = 0 THEN NaN
    ELSE IF k > 0 THEN a ELSE FNeg(a)

\* a / k for a nonzero Python number k given as an integer
FOver(a, k) == IF IsNum(a) THEN Num(a.val \div k) ELSE a

\* a * r for a RateScale value r >= 0
FMulRate(a, r) ==
    IF IsNum(a) THEN Num(MulDiv(a.val, r, RateScale))
    ELSE IF a.kind = "nan" \/ r = 0 THEN NaN
    ELSE a

\* a // b, the integer quotient, in place of a / b
FDiv_integer(a, b, scale) ==
    IF IsNum(a) /\ IsNum(b) /\ b.val # 0 THEN Num(a.val \div b.val) ELSE NaN

\* a / b, the quotient on the scale `scale`; b >= 0 where it is a number
FDiv(a, b, scale) ==
    IF a.kind = "nan" \/ b.kind = "nan" THEN NaN
    ELSE IF IsNum(b) /\ b.val = 0
         THEN IF IsNum(a)
              THEN IF a.val = 0 THEN NaN
                   ELSE IF a.val > 0 THEN PosInf ELSE NegInf
              ELSE a
    ELSE IF IsNum(a) /\ IsNum(b) THEN Num(MulDiv(a.val, scale, b.val))
    ELSE IF IsNum(b) THEN a
    ELSE IF IsNum(a) THEN Num(0)
    ELSE NaN

-----------------------------------------------------------------------------
(* real_estate_logic.py: the metrics engine                                *)

DEPRECIATION_YEARS == Frac(275, 10)

\* a term of fifteen years
months_fifteen_years == 15 * 12

\* months = 30 * 12
months == 30 * 12

\* the 12-month / years*12-month loops: for _ in range(n): int_pmt = bal *
\* monthly_int; princ_pmt = pmt - int_pmt; paid += princ_pmt; bal -= princ_pmt
\* (n iterations run as the first n \div 2 followed by the rest; the test
\* on `half` has it evaluated before the rest starts)
RECURSIVE amortize(_, _, _, _, _)
amortize(bal, paid, pmt, monthly_int, n) ==
    IF n = 0 THEN [paid |-> paid, bal |-> bal]
    ELSE IF n = 1
         THEN LET int_pmt == FMulRate(bal, monthly_int)
                  princ_pmt == FSub(pmt, int_pmt)
              IN  [paid |-> FAdd(paid, princ_pmt), bal |-> FSub(bal, princ_pmt)]
    ELSE LET half == amortize(bal, paid, pmt, monthly_int, n \div 2)
         IN  IF half.bal.kind = "txt" THEN half
             ELSE amortize(half.bal, half.paid, pmt, monthly_int, n - n \div 2)

\* for _ in range(12): the iterations of the first-year loop
principal_year1_iterations(params) == 12

\* a horizon loop that runs two iterations for each month
total_principal_iterations_doubled(params) == params.appreciation_years * 12 * 2

\* for _ in range(years * 12): the iterations of the horizon loop
total_principal_iterations(params) == params.appreciation_years * 12

\* a payment that covers the first month's interest and no principal
mortgage_payment_interest_only(Loan_Amount, monthly_int) ==
    FMulRate(Loan_Amount, monthly_int)

\* mortgage = Loan_Amount * (monthly_int * (1 + monthly_int) ** months)
\*                        / ((1 + monthly_int) ** months - 1)
\* Series * scalar / scalar: no exception, 0 / 0 is NaN
mortgage_payment(Loan_Amount, monthly_int) ==
    LET growth == PowFx(RateScale + monthly_int, months)
    IN  FDiv(FMulRate(Loan_Amount, MulDiv(monthly_int, growth, RateScale)),
             Num(growth - RateScale), RateScale)

\* one row of the vectorised computation; the record carries the columns of
\* `data` and the two locals mortgage and principal_year1 of that row
metrics_row(row, params) ==
    LET int_rate == params.interest_rate \div 100
        monthly_int == int_rate \div 12
        years == params.appreciation_years
        Home_Price == row.Home_Price
        Rent == row.Rent
        Down_Payment == FMulRate(Home_Price, params.down_payment_pct \div 100)
        Loan_Amount == FSub(Home_Price, Down_Payment)
        mortgage == mortgage_payment(Loan_Amount, monthly_int)
        monthly_ins == Num(params.insurance_annual \div 12)
        maint == FOver(FMulRate(Home_Price, params.maintenance_rate), 12)
        vacancy == FMulRate(Rent, params.vacancy_rate)
        mgmt_fee == FMulRate(Rent, params.property_mgmt_pct)
        capex == Num(params.capex_monthly)
        property_tax ==
            FOver(FMulRate(Home_Price, params.property_tax_rate \div 100), 12)
        expenses ==
            FAdd(FAdd(FAdd(FAdd(FAdd(FAdd(mortgage, monthly_ins), maint),
                 vacancy), mgmt_fee), capex), property_tax)
        Monthly_CF == FSub(Rent, expenses)
        Annual_CF == FTimes(Monthly_CF, 12)
        Cash_Down == Down_Payment
        Closing_Costs == FMulRate(Home_Price, params.closing_cost_pct \div 100)
        Cash_In == FAdd(Cash_Down, Closing_Costs)
        Structure_Value == FMulRate(Home_Price, params.structure_pct)
        Depreciation == FDiv(Structure_Value, Num(DEPRECIATION_YEARS), RateScale)
        Tax_Savings == FMulRate(Depreciation, params.marginal_tax_rate \div 100)
        principal_year1 ==
            amortize(Loan_Amount, Num(0), mortgage, monthly_int,
                     principal_year1_iterations(params)).paid
        Basic_CoC == FTimes(FDiv(Annual_CF, Cash_In, RatioScale), 100)
        Advanced_CoC ==
            FTimes(FDiv(FAdd(FAdd(Annual_CF, Tax_Savings), principal_year1),
                        Cash_In, RatioScale), 100)
        total_principal_paid ==
            amortize(Loan_Amount, Num(0), mortgage, monthly_int,
                     total_principal_iterations(params)).paid
        app_rate == params.annual_appreciation_pct \div 100
        Appreciation_Gain ==
            FSub(FMulRate(Home_Price, PowFx(RateScale + app_rate, years)), Home_Price)
        Equity_From_Paydown == total_principal_paid
        MultiYear_Income_Gain ==
            FAdd(FAdd(FTimes(Annual_CF, years), FTimes(Tax_Savings, years)),
                 Equity_From_Paydown)
        Total_Return == FAdd(Appreciation_Gain, MultiYear_Income_Gain)
        Total_ROC == FTimes(FDiv(Total_Return, Cash_In, RatioScale), 100)
    IN  [Zip_Code |-> row.Zip_Code, Zip_Label |-> row.Zip_Label,
         Home_Price |-> Home_Price, Rent |-> Rent,
         Down_Payment |-> Down_Payment, Loan_Amount |-> Loan_Amount,
         mortgage |-> mortgage,
         Monthly_CF |-> Monthly_CF, Annual_CF |-> Annual_CF,
         Cash_Down |-> Cash_Down, Closing_Costs |-> Closing_Costs,
         Cash_In |-> Cash_In, Structure_Value |-> Structure_Value,
         Depreciation |-> Depreciation, Tax_Savings |-> Tax_Savings,
         principal_year1 |-> principal_year1,
         Basic_CoC |-> Basic_CoC, Advanced_CoC |-> Advanced_CoC,
         Appreciation_Gain |-> Appreciation_Gain,
         Equity_From_Paydown |-> Equity_From_Paydown,
         MultiYear_Income_Gain |-> MultiYear_Income_Gain,
         Total_Return |-> Total_Return, Total_ROC |-> Total_ROC]

\* the assumptions read from st.session_state in place of the argument
calculate_financial_metrics_ambient(data, params) ==
    [i \in 1..Len(data) |-> metrics_row(data[i], [k \in DOMAIN params |-> session_state[k]])]

\* the rows computed in the order of a descending sort
calculate_financial_metrics_reversed(data, params) ==
    [i \in 1..Len(data) |-> metrics_row(data[Len(data) + 1 - i], params)]

\* calculate_financial_metrics(valid_data, params): data = valid_data.copy(),
\* every column assignment is row-wise, the row order is the input's
calculate_financial_metrics(data, params) ==
    [i \in 1..Len(data) |-> metrics_row(data[i], params)]

-----------------------------------------------------------------------------
(* test_only.py: the earlier engine, with a fixed loan-to-value ratio      *)

\* a loan of 75% of the price
LOAN_TO_VALUE_three_quarters == Frac(75, 100)

\* LOAN_TO_VALUE = 0.8
LOAN_TO_VALUE == Frac(80, 100)

\* one row of test_only.calculate_financial_metrics: loan_amt = Home_Price *
\* LOAN_TO_VALUE, Cash_Down = Home_Price * (1 - LOAN_TO_VALUE); the rest as
\* in the engine above, the total named Total_Equity_Gain
test_only_metrics_row(row, params) ==
    LET int_rate == params.interest_rate \div 100
        monthly_int == int_rate \div 12
        years == params.appreciation_years
        Home_Price == row.Home_Price
        Rent == row.Rent
        loan_amt == FMulRate(Home_Price, LOAN_TO_VALUE)
        mortgage == mortgage_payment(loan_amt, monthly_int)
        monthly_ins == Num(params.insurance_annual \div 12)
        maint == FOver(FMulRate(Home_Price, params.maintenance_rate), 12)
        vacancy == FMulRate(Rent, params.vacancy_rate)
        mgmt_fee == FMulRate(Rent, params.property_mgmt_pct)
        capex == Num(params.capex_monthly)
        property_tax ==
            FOver(FMulRate(Home_Price, params.property_tax_rate \div 100), 12)
        expenses ==
            FAdd(FAdd(FAdd(FAdd(FAdd(FAdd(mortgage, monthly_ins), maint),
                 vacancy), mgmt_fee), capex), property_tax)
        Monthly_CF == FSub(Rent, expenses)
        Annual_CF == FTimes(Monthly_CF, 12)
        Cash_Down == FMulRate(Home_Price, RateScale - LOAN_TO_VALUE)
        Closing_Costs == FMulRate(Home_Price, params.closing_cost_pct \div 100)
        Cash_In == FAdd(Cash_Down, Closing_Costs)
        Structure_Value == FMulRate(Home_Price, params.structure_pct)
        Depreciation == FDiv(Structure_Value, Num(DEPRECIATION_YEARS), RateScale)
        Tax_Savings == FMulRate(Depreciation, params.marginal_tax_rate \div 100)
        principal_year1 == amortize(loan_amt, Num(0), mortgage, monthly_int, 12).paid
        Basic_CoC == FTimes(FDiv(Annual_CF, Cash_In, RatioScale), 100)
        Advanced_CoC ==
            FTimes(FDiv(FAdd(FAdd(Annual_CF, Tax_Savings), principal_year1),
                        Cash_In, RatioScale), 100)
        total_principal_paid ==
            amortize(loan_amt, Num(0), mortgage, monthly_int, years * 12).paid
        app_rate == params.annual_appreciation_pct \div 100
        Appreciation_Gain ==
            FSub(FMulRate(Home_Price, PowFx(RateScale + app_rate, years)), Home_Price)
        Equity_From_Paydown == total_principal_paid
        MultiYear_Advanced_CoC_Dollars ==
            FAdd(FAdd(FTimes(Annual_CF, years), FTimes(Tax_Savings, years)),
                 Equity_From_Paydown)
        Total_Equity_Gain == FAdd(Appreciation_Gain, MultiYear_Advanced_CoC_Dollars)
        Total_ROC == FTimes(FDiv(Total_Equity_Gain, Cash_In, RatioScale), 100)
    IN  [Zip_Code |-> row.Zip_Code, Zip_Label |-> row.Zip_Label,
         Home_Price |-> Home_Price, Rent |-> Rent,
         Monthly_CF |-> Monthly_CF, Annual_CF |-> Annual_CF,
         Cash_Down |-> Cash_Down, Closing_Costs |-> Closing_Costs,
         Cash_In |-> Cash_In, Structure_Value |-> Structure_Value,
         Depreciation |-> Depreciation, Tax_Savings |-> Tax_Savings,
         Basic_CoC |-> Basic_CoC, Advanced_CoC |-> Advanced_CoC,
         Appreciation_Gain |-> Appreciation_Gain,
         Equity_From_Paydown |-> Equity_From_Paydown,
         MultiYear_Advanced_CoC_Dollars |-> MultiYear_Advanced_CoC_Dollars,
         Total_Equity_Gain |-> Total_Equity_Gain, Total_ROC |-> Total_ROC]

\* test_only.calculate_financial_metrics(valid_data, params)
test_only_calculate_financial_metrics(data, params) ==
    [i \in 1..Len(data) |-> test_only_metrics_row(data[i], params)]

-----------------------------------------------------------------------------
(* dashboard_app.py: run_deal_analyzer_tab, "Compute Full Returns" and     *)
(* "Display Results" (lines 185-242).  Python scalars: a division by zero  *)
(* raises ZeroDivisionError and nothing after it is computed or rendered.  *)

NoDeal == [outcome |-> "none", monthly_cf |-> 0, annual_cf |-> 0,
           basic_coc |-> 0, first_year_roi |-> 0, total_roc |-> 0,
           total_return |-> 0, home_price |-> 0, rent |-> 0,
           down_payment_pct |-> 0]

\* the year-1 loop on Python floats (lines 212-219)
RECURSIVE paydown(_, _, _, _, _)
paydown(bal, paid, mortgage, monthly_int, n) ==
    IF n = 0 THEN [paid |-> paid, bal |-> bal]
    ELSE IF n = 1
         THEN LET int_pmt == MulDiv(bal, monthly_int, RateScale)
                  princ_pmt == mortgage - int_pmt
              IN  [paid |-> paid + princ_pmt, bal |-> bal - princ_pmt]
    ELSE LET half == paydown(bal, paid, mortgage, monthly_int, n \div 2)
         IN  IF half.bal = half.paid - 1 THEN half
             ELSE paydown(half.bal, half.paid, mortgage, monthly_int, n - n \div 2)

\* the fixed 80% loan-to-value of the older dashboard in place of line 186
deal_loan_amount_fixed_ltv(home_price_input, down_payment_pct) ==
    MulDiv(home_price_input, Frac(80, 100), RateScale)

\* line 186: loan_amount = home_price_input * (1 - down_payment_pct / 100)
deal_loan_amount(home_price_input, down_payment_pct) ==
    MulDiv(home_price_input, RateScale - down_payment_pct \div 100, RateScale)

deal_returns(home_price_input, rent_input, down_payment_pct, ss) ==
    LET loan_amount == deal_loan_amount(home_price_input, down_payment_pct)
        closing_costs ==
            MulDiv(home_price_input, ss.closing_cost_pct \div 100, RateScale)
        cash_down == MulDiv(home_price_input, down_payment_pct \div 100, RateScale)
        cash_in == cash_down + closing_costs
        int_rate == ss.interest_rate \div 100
        monthly_int == int_rate \div 12
        growth == PowFx(RateScale + monthly_int, months)
        mortgage ==
            MulDiv(MulDiv(loan_amount, MulDiv(monthly_int, growth, RateScale), RateScale),
                   RateScale, growth - RateScale)
        monthly_ins == ss.insurance_annual \div 12
        maint == MulDiv(home_price_input, ss.maintenance_rate, RateScale) \div 12
        vacancy == MulDiv(rent_input, ss.vacancy_rate, RateScale)
        mgmt_fee == MulDiv(rent_input, ss.property_mgmt_pct, RateScale)
        capex == ss.capex_monthly
        property_tax ==
            MulDiv(home_price_input, ss.property_tax_rate \div 100, RateScale) \div 12
        expenses == mortgage + monthly_ins + maint + vacancy + mgmt_fee + capex
                    + property_tax
        monthly_cf == rent_input - expenses
        annual_cf == monthly_cf * 12
        structure_value == MulDiv(home_price_input, ss.structure_pct, RateScale)
        depreciation == MulDiv(structure_value, RateScale, DEPRECIATION_YEARS)
        tax_savings == MulDiv(depreciation, ss.marginal_tax_rate \div 100, RateScale)
        year1 == paydown(loan_amount, 0, mortgage, monthly_int, 12)
        principal_paid == year1.paid
        bal == year1.bal
        years == ss.appreciation_years
        app_rate == ss.annual_appreciation_pct \div 100
        appreciation_gain ==
            MulDiv(home_price_input, PowFx(RateScale + app_rate, years) - RateScale,
                   RateScale)
        total_advanced == annual_cf * years + tax_savings * years + bal - loan_amount
        total_return == appreciation_gain + total_advanced
        total_roc == MulDiv(total_return, RatioScale, cash_in) * 100
        raised == [NoDeal EXCEPT !.outcome = "ZeroDivisionError",
                                 !.home_price = home_price_input,
                                 !.rent = rent_input,
                                 !.down_payment_pct = down_payment_pct]
    IN  IF growth - RateScale = 0 THEN raised          \* line 194
        ELSE IF cash_in = 0 THEN raised                \* line 229
        ELSE [outcome |-> "rendered",
              monthly_cf |-> monthly_cf, annual_cf |-> annual_cf,
              basic_coc |-> MulDiv(annual_cf, RatioScale, cash_in) * 100,
              first_year_roi |->
                  MulDiv(annual_cf + tax_savings + principal_paid, RatioScale,
                         cash_in) * 100,
              total_roc |-> total_roc, total_return |-> total_return,
              home_price |-> home_price_input, rent |-> rent_input,
              down_payment_pct |-> down_payment_pct]

-----------------------------------------------------------------------------
(* real_estate_logic.py: data preparation                                  *)
(*                                                                         *)
(* A string is a sequence of one-character strings.  A table (DataFrame)   *)
(* is [columns, rows]: columns is the sequence of column names other than  *)
(* RegionName, rows the sequence of records [RegionName, cells], cells a   *)
(* function from the column names to cells.                                *)

\* the characters that occur in column names, in code-point order
CharOrder == <<"-", "0", "1", "2", "3", "4", "5", "6", "7", "8", "9",
               "C", "i", "t", "y">>

Code(ch) == CHOOSE i \in 1..Len(CharOrder) : CharOrder[i] = ch

\* s < t in Python's str order
RECURSIVE StrLess(_, _)
StrLess(s, t) ==
    IF t = <<>> THEN FALSE
    ELSE IF s = <<>> THEN TRUE
    ELSE IF Head(s) = Head(t) THEN StrLess(Tail(s), Tail(t))
    ELSE Code(Head(s)) < Code(Head(t))

\* "-" in col, in place of counting
count_hyphen_any(col) == IF \E i \in 1..Len(col) : col[i] = "-" THEN 2 ELSE 0

\* col.count("-")
count_hyphen(col) == Cardinality({i \in 1..Len(col) : col[i] = "-"})

Digit(d) == CharOrder[d + 2]

\* str(n) for an integer n >= 0
RECURSIVE Str(_)
Str(n) == IF n < 10 THEN <<Digit(n)>> ELSE Append(Str(n \div 10), Digit(n % 10))

\* s.zfill(w)
RECURSIVE zfill(_, _)
zfill(s, w) == IF Len(s) >= w THEN s ELSE zfill(<<"0">> \o s, w)

\* sorted(S) for a set of strings
RECURSIVE sorted(_)
sorted(S) ==
    IF S = {} THEN <<>>
    ELSE LET least == CHOOSE x \in S : \A y \in S \ {x} : StrLess(x, y)
         IN  <<least>> \o sorted(S \ {least})

Range(seq) == {seq[i] : i \in 1..Len(seq)}

\* the ZIP codes of the neighborhood-label map `names`
names == << <<80902, "Fort Carson">>, <<80903, "Downtown">>,
            <<80904, "Old Colorado City">>, <<80905, "Southwest">>,
            <<80906, "Broadmoor">>, <<80907, "North Central">>,
            <<80908, "Black Forest">>, <<80909, "East Central">>,
            <<80910, "Southeast">>, <<80911, "Security-Widefield">>,
            <<80915, "Cimarron Hills">>, <<80916, "South Central">>,
            <<80917, "Village Seven">>, <<80918, "Austin Bluffs">>,
            <<80919, "Rockrimmon">>, <<80920, "Briargate">>,
            <<80921, "Northgate">>, <<80922, "Stetson Hills">>,
            <<80923, "Ridgeview">>, <<80924, "Cordera">>,
            <<80925, "Schriever Area">>, <<80926, "Cheyenne Mountain">>,
            <<80927, "Banning Lewis">>, <<80928, "SE Rural">>,
            <<80929, "Ellicott">>, <<80930, "East Rural">>,
            <<80938, "East Springs">>, <<80939, "BL North">>,
            <<80829, "Manitou">>, <<80817, "Fountain">> >>

\* a map that has a name for every key
map_names_total(zip) == [kind |-> "str", val |-> 0]

\* df["Zip_Code"].map(names): the name, or NaN for a key the map lacks
map_names(zip) ==
    IF \E i \in 1..Len(names) : Str(names[i][1]) = zip
    THEN [kind |-> "str",
          val |-> (CHOOSE i \in 1..Len(names) : Str(names[i][1]) = zip)]
    ELSE NaN

\* filter_and_label_zips(df): Zip_Code = str(RegionName), no padding;
\* Zip_Label = Zip_Code + " - " + name, NaN where the name is NaN
filter_and_label_zips(df) ==
    [columns |-> df.columns,
     rows |-> [i \in 1..Len(df.rows) |->
                 [Zip_Code |-> Str(df.rows[i].RegionName),
                  Zip_Label |-> map_names(Str(df.rows[i].RegionName)),
                  cells |-> df.rows[i].cells]]]

\* a conversion that leaves every cell as it is
to_numeric_ignore(x) == x

\* pd.to_numeric(x, errors="coerce")
to_numeric(x) == IF IsNum(x) THEN x ELSE NaN

\* a test that finds no missing value
isna_never(x) == FALSE

isna(x) == x.kind = "nan"

\* pd.merge(left, right, on="Zip_Code"): inner join, every pair of rows with
\* equal keys, in the order of the left rows and then of the right rows
\* (the left rows lo..hi, split in halves)
RECURSIVE merge_rows(_, _, _, _)
merge_rows(left, right, lo, hi) ==
    IF lo > hi THEN <<>>
    ELSE IF lo = hi
         THEN LET l == left[lo]
                  matches == SelectSeq(right, LAMBDA r : r.Zip_Code = l.Zip_Code)
              IN  [j \in 1..Len(matches) |-> [l |-> l, r |-> matches[j]]]
    ELSE LET mid == (lo + hi) \div 2
         IN  merge_rows(left, right, lo, mid)
             \o merge_rows(left, right, mid + 1, hi)

\* the pairs [l, r] of matching rows
merge(left, right) == merge_rows(left, right, 1, Len(left))

\* line 47-49: the date columns of both tables, sorted
common_dates(home, rent) ==
    LET home_dates == {col \in Range(home.columns) : count_hyphen(col) = 2}
        rent_dates == {col \in Range(rent.columns) : count_hyphen(col) = 2}
    IN  sorted(home_dates \cap rent_dates)

\* common_dates[0] in place of line 53
first_of(dates) == dates[1]

\* line 53: latest_month = common_dates[-1]
last_of(dates) == dates[Len(dates)]

\* line 62: merged.dropna(), over every column of merged
merged_dropna(merged) ==
    SelectSeq(merged,
              LAMBDA m : ~(\/ isna(m.Zip_Label) \/ isna(m.Price_raw)
                           \/ isna(m.Rent_raw) \/ isna(m.Home_Price)
                           \/ isna(m.Rent)))

\* prepare_merged_data(home_df, rent_df) -> [data, month]
prepare_merged_data(home, rent) ==
    LET processed_home_df == filter_and_label_zips(home)
        processed_rent_df == filter_and_label_zips(rent)
        dates == common_dates(processed_home_df, processed_rent_df)
        month == last_of(dates)
        pairs == merge(processed_home_df.rows, processed_rent_df.rows)
        merged ==
            [i \in 1..Len(pairs) |->
                LET h == pairs[i].l
                    r == pairs[i].r
                IN  [Zip_Code |-> h.Zip_Code, Zip_Label |-> h.Zip_Label,
                     Price_raw |-> h.cells[month], Rent_raw |-> r.cells[month],
                     Home_Price |-> to_numeric(h.cells[month]),
                     Rent |-> to_numeric(r.cells[month])]]
    IN  IF dates = <<>> THEN [data |-> None, month |-> None]
        ELSE [data |-> Some(merged_dropna(merged)), month |-> Some(month)]

\* a CSV column that holds a non-numeric cell is read as an object column
is_object_column(df, col) == \E i \in 1..Len(df.rows) : df.rows[i].cells[col].kind = "txt"

\* lines 66-75 of get_national_training_data: keys zero-padded to width 5,
\* inner join of the two columns of the period, rows with a NaN dropped
national_merged(home, rent, month) ==
    LET keyed(df) == [i \in 1..Len(df.rows) |->
                        [Zip_Code |-> zfill(Str(df.rows[i].RegionName), 5),
                         cell |-> df.rows[i].cells[month]]]
        pairs == merge(keyed(home), keyed(rent))
        merged == [i \in 1..Len(pairs) |->
                     [Zip_Code |-> pairs[i].l.Zip_Code,
                      Home_Price |-> pairs[i].l.cell, Rent |-> pairs[i].r.cell]]
    IN  SelectSeq(merged, LAMBDA m : ~(isna(m.Home_Price) \/ isna(m.Rent)))

\* line 76: merged[(merged["Home_Price"] > 0) & (merged["Rent"] > 0)];
\* comparing an object column that holds str values with 0 raises TypeError
national_raises(home, rent, month) ==
    /\ national_merged(home, rent, month) # <<>>
    /\ is_object_column(home, month) \/ is_object_column(rent, month)

get_national_training_data(home, rent, month) ==
    SelectSeq(national_merged(home, rent, month),
              LAMBDA m : m.Home_Price.val > 0 /\ m.Rent.val > 0)

-----------------------------------------------------------------------------
(* dashboard_app.py: session state and the input tables                    *)

\* defaults (lines 44-58)
defaults ==
    [down_payment_pct |-> Pct(20), interest_rate |-> Pct(7),
     closing_cost_pct |-> Pct(2), maintenance_rate |-> Frac(15, 1000),
     insurance_annual |-> Dollars(1300), vacancy_rate |-> Frac(5, 100),
     marginal_tax_rate |-> Pct(24), structure_pct |-> Frac(85, 100),
     property_mgmt_pct |-> Frac(8, 100), capex_monthly |-> Dollars(300),
     annual_appreciation_pct |-> Pct(3), appreciation_years |-> 5,
     property_tax_rate |-> Frac(41, 100)]

\* params = {k: st.session_state[k] for k in defaults} (lines 283-284)
params_of(ss) == [k \in DOMAIN defaults |-> ss[k]]

\* the session keys that create_sidebar rewrites from a percent slider
\* (lines 80-81, 85-86, 90-91, 98-99)
percent_keys == {"maintenance_rate", "vacancy_rate", "property_mgmt_pct", "structure_pct"}

\* the key of the slider that edits session key k: key="maintenance_rate_pct"
slider_key(k) == k \o "_pct"

\* no percent slider has been created yet
NoWidgets == [k \in percent_keys |-> None]

\* reset_to_defaults(): st.session_state[key] = value for every item of
\* defaults; the sliders' own keys are not among them
reset_to_defaults(ss) == [k \in DOMAIN ss |-> defaults[k]]

\* value = st.session_state.get(k, defaults[k]) * 100
to_percent(rate) == rate * 100

\* st.session_state[k] = pct / 100
from_percent(pct) == pct \div 100

\* st.sidebar.slider(..., value=value, key=...): a slider created for the
\* first time returns its value argument.  One that was created in an
\* earlier run returns the position stored under its key; a Streamlit that
\* identifies widgets by their arguments (by_key false) takes a slider whose
\* value argument has changed since the last run for a new one.
slider(widget, value, by_key) ==
    IF IsNone(widget) THEN value
    ELSE IF by_key \/ widget.val.arg = value THEN widget.val.state
    ELSE value

\* create_sidebar(), with `pressed` what st.sidebar.button returns: the
\* session state and the percent sliders after it.  The sliders keyed by a
\* session key itself (down_payment_pct, interest_rate, ...) read and leave
\* st.session_state[key]; each percent slider overwrites its session key.
sidebar(ss, ws, pressed, by_key) ==
    LET start == IF pressed THEN reset_to_defaults(ss) ELSE ss
        shown == [k \in percent_keys |->
                     slider(ws[k], to_percent(start[k]), by_key)]
    IN  [session_state |->
             [k \in DOMAIN ss |->
                 IF k \in percent_keys THEN from_percent(shown[k]) ELSE start[k]],
         widgets |->
             [k \in percent_keys |->
                 Some([state |-> shown[k], arg |-> to_percent(start[k])])]]

tab_labels == <<"Basic Cash on Cash", "First-Year ROI", "Total Return",
                "Data Explorer", "Rent Estimator", "Deal Analyzer">>

\* a date column name, in the format the rent history reads (line 537):
\* four digits, "-", two digits, "-", two digits
DateCol(y, m, d) ==
    zfill(Str(y), 4) \o <<"-">> \o zfill(Str(m), 2) \o <<"-">> \o zfill(Str(d), 2)

City == <<"C", "i", "t", "y">>
Dec24 == DateCol(2024, 12, 31)
Sep25 == DateCol(2025, 9, 30)
Oct25 == DateCol(2025, 10, 31)
\* a column with one hyphen: a month without its day
Month25 == zfill(Str(2025), 4) \o <<"-">> \o zfill(Str(10), 2)
DateCols == <<Dec24, Sep25, Oct25, Month25>>

\* the column lists of the (home, rent) files the model reads
ColumnChoices ==
    { << <<City, Dec24, Sep25, Oct25>>, <<City, Dec24, Sep25>> >>,
      << <<City, Sep25, Oct25>>, <<City, Oct25, Sep25, Dec24>> >>,
      << <<City, Dec24>>, <<City, Sep25, Oct25>> >>,
      << <<City, Month25>>, <<City, Month25>> >> }

\* numbers of rows of the tables the model reads
FewLocal == 3
ManyLocal == 10
Filler == 90

RowChoices ==
    { <<FewLocal, 0>>, <<ManyLocal, Filler>>, <<ManyLocal, Filler + 1>>,
      <<ManyLocal + 1, Filler - 2>> }

\* what the first local row holds in the home table and in the rent table
KindChoices ==
    { <<"pos", "pos">>, <<"zero", "pos">>, <<"pos", "neg">>, <<"nan", "pos">>,
      <<"pos", "nan">>, <<"txt", "pos">> }

Cell(kind, v) ==
    CASE kind = "pos" -> Num(v)
      [] kind = "zero" -> Num(0)
      [] kind = "neg" -> Num(0 - v)
      [] kind = "nan" -> NaN
      [] OTHER -> Txt

DateIndex(col) == CHOOSE k \in 1..Len(DateCols) : DateCols[k] = col

\* a row whose value differs from column to column
InputRow(zip, kind, base, columns) ==
    [RegionName |-> zip,
     cells |-> [c \in Range(columns) |->
                  IF c = City THEN Txt
                  ELSE Cell(kind, base + Dollars(100) * DateIndex(c))]]

\* ZIP codes outside the label map, every other one with a leading zero
FillerZip(i) == IF i % 2 = 1 THEN 1000 + i ELSE 90000 + i

\* a table: nLocal rows of the label map's ZIP codes (the first of kind
\* `kind`), one more local row that only this table has, nFill other rows
InputTable(columns, nLocal, nFill, kind, own, base, step) ==
    [kind |-> "some", columns |-> columns,
     rows |-> [i \in 1..nLocal |->
                 InputRow(names[i][1], IF i = 1 THEN kind ELSE "pos",
                          base + step * i, columns)]
              \o <<InputRow(names[own][1], "pos", base, columns)>>
              \o [i \in 1..nFill |->
                    InputRow(FillerZip(i), "pos", base - step * i, columns)]]

HomeTable(columns, rows, kind) ==
    InputTable(columns, rows[1], rows[2], kind, Len(names), Dollars(300000),
               Dollars(1000))

RentTable(columns, rows, kind) ==
    InputTable(columns, rows[1], rows[2], kind, Len(names) - 1, Dollars(2000),
               Dollars(10))

\* what the user set in the sidebar: (down payment %, closing costs %)
SidebarChoices == { <<20, 2>>, <<0, 0>>, <<0, 2>> }

-----------------------------------------------------------------------------
(* data_fetcher.py.  The data directory is a function from the paths to    *)
(* what is stored there: Absent, the file that was there before the first  *)
(* call (Original), the body served by a URL (the URL itself), or the file *)
(* that open(path, "wb") created and whose write did not complete          *)
(* (Truncated).                                                            *)

Absent == "absent"
Original == "original"
Truncated == "truncated"

home_url == "https://files.zillowstatic.com/research/public/zhvi/Zip_ZHVI_AllHomes.csv"
rent_index_url ==
    "https://files.zillowstatic.com/research/public/observed-rent-index/Zip_Observed_Rent_Index_AllHomes.csv"
rent_url ==
    "https://files.zillowstatic.com/research/public/observed-rent-index/Zip_Ordinance_ORI_AllHomes_SA_month.csv"

\* REQUIRED_FILES, in the dict's insertion order
REQUIRED_FILES ==
    << [filename |-> "zillow_home_values_2025-07-03.csv", url |-> home_url],
       [filename |-> "zillow_rent_index_2025-07-03.csv", url |-> rent_index_url] >>

\* os.path.join(data_dir, filename)
join(data_dir, filename) == data_dir \o "/" \o filename

rent_path == "data/zillow_rent_index_latest.csv"
home_path == "data/zillow_home_values_latest.csv"

\* the paths the calls below name
Paths ==
    {join("data", REQUIRED_FILES[i].filename) : i \in 1..Len(REQUIRED_FILES)}
        \cup {rent_path, home_path}

NoFiles == [p \in Paths |-> Absent]

\* what the body of the try block can do: complete; requests.get raises;
\* raise_for_status raises; open raises (nothing is created); f.write raises
\* after open has created the file
Outcomes == {"ok", "request_error", "bad_status", "open_error", "write_error"}

\* a check that finds no file anywhere
exists_never(fs, path) == FALSE

\* os.path.exists(path)
exists(fs, path) == fs[path] # Absent

\* response = requests.get(url, timeout=15); response.raise_for_status();
\* with open(path, "wb") as f: f.write(response.content)
try_download(fs, url, path, outcome) ==
    CASE outcome = "ok" -> [fs EXCEPT ![path] = url]
      [] outcome = "write_error" -> [fs EXCEPT ![path] = Truncated]
      [] OTHER -> fs

\* download_if_missing(url, save_path): the directory after the call, the
\* requests made and the value returned; the except clause catches Exception,
\* prints and returns False
download_if_missing(fs, url, save_path, outcome) ==
    IF exists(fs, save_path)
    THEN [fs |-> fs, attempts |-> <<>>, returned |-> FALSE]
    ELSE [fs |-> try_download(fs, url, save_path, outcome),
          attempts |-> << [path |-> save_path, url |-> url, outcome |-> outcome] >>,
          returned |-> (outcome = "ok")]

\* the loop of fetch_if_missing over REQUIRED_FILES.items() from item i on;
\* outcomes[i] is what the try block of item i does if it is entered; the
\* except clause catches Exception, prints, and the loop goes on
RECURSIVE fetch_loop(_, _, _, _, _)
fetch_loop(fs, data_dir, outcomes, attempts, i) ==
    IF i > Len(REQUIRED_FILES) THEN [fs |-> fs, attempts |-> attempts]
    ELSE LET path == join(data_dir, REQUIRED_FILES[i].filename)
             url == REQUIRED_FILES[i].url
         IN  IF ~exists(fs, path)
             THEN fetch_loop(try_download(fs, url, path, outcomes[i]), data_dir,
                             outcomes,
                             Append(attempts, [path |-> path, url |-> url,
                                               outcome |-> outcomes[i]]),
                             i + 1)
             ELSE fetch_loop(fs, data_dir, outcomes, attempts, i + 1)

\* fetch_if_missing(data_dir)
fetch_if_missing(fs, data_dir, outcomes) ==
    fetch_loop(fs, data_dir, outcomes, <<>>, 1)

-----------------------------------------------------------------------------
(* dashboard_app.py: main(), one run of the script                         *)

\* the threshold of line 428 taken as exclusive
estimator_can_fit_above(national) == ~IsNone(national) /\ Len(national.val) > 100

\* line 428: national_df is not None and len(national_df) >= 100
estimator_can_fit(national) == ~IsNone(national) /\ Len(national.val) >= 100

\* line 135: national_df is not None and len(national_df) >= 100
deal_can_fit(national) == ~IsNone(national) /\ Len(national.val) >= 100

\* line 273: home_df is None or rent_df is None
data_missing(home, rent) == IsNone(home) \/ IsNone(rent)

\* the check of line 278 left out
merge_missing_unchecked(valid) == FALSE

\* line 278: valid_data is None
merge_missing(valid) == IsNone(valid)

NoModel == [fitted |-> FALSE, sample_size |-> 0, reads |-> <<>>]

\* LinearRegression().fit on the logs of the national table; the model keeps
\* that a fit happened and on how many rows, not the coefficients
fit(national) == [fitted |-> TRUE, sample_size |-> Len(national), reads |-> <<>>]

\* a computation that evaluates intercept_nat + slope_nat * np.log(...)
read_model(m, by) ==
    [m EXCEPT !.reads = Append(@, [by |-> by, fitted |-> m.fitted])]

Init ==
    /\ pc = "start"
    /\ session_state = defaults
    /\ home_df = None
    /\ rent_df = None
    /\ valid_data = None
    /\ latest_month = None
    /\ national_df = None
    /\ call_params = None
    /\ results = None
    /\ selected = "Basic Cash on Cash"
    /\ model = NoModel
    /\ deal = NoDeal
    /\ screen = <<>>
    /\ adjustment = None
    /\ files = NoFiles
    /\ last_call = None
    /\ widgets = NoWidgets

\* create_sidebar(): the keyed sliders leave the user's values in session
\* state; the model varies the down payment and the closing costs
create_sidebar ==
    /\ pc = "start"
    /\ \E c \in SidebarChoices :
          session_state' = [session_state EXCEPT !.down_payment_pct = Pct(c[1]),
                                                 !.closing_cost_pct = Pct(c[2])]
    /\ pc' = "sidebar"
    /\ UNCHANGED <<home_df, rent_df, valid_data, latest_month, national_df,
                   results, selected, model, deal, screen>>
    /\ UNCHANGED call_params
    /\ UNCHANGED adjustment
    /\ UNCHANGED files
    /\ UNCHANGED last_call
    /\ UNCHANGED widgets

\* load_data(home_path, rent_path): both tables, or (None, None) when
\* reading either file raised
load_data ==
    /\ pc = "sidebar"
    /\ \/ /\ home_df' = None
          /\ rent_df' = None
       \/ \E cols \in ColumnChoices, rows \in RowChoices, kinds \in KindChoices :
             /\ home_df' = HomeTable(cols[1], rows, kinds[1])
             /\ rent_df' = RentTable(cols[2], rows, kinds[2])
    /\ pc' = "loaded"
    /\ UNCHANGED <<session_state, valid_data, latest_month, national_df,
                   results, selected, model, deal, screen>>
    /\ UNCHANGED call_params
    /\ UNCHANGED adjustment
    /\ UNCHANGED files
    /\ UNCHANGED last_call
    /\ UNCHANGED widgets

\* lines 273-275
load_failed ==
    /\ pc = "loaded"
    /\ data_missing(home_df, rent_df)
    /\ screen' = Append(screen, "error: Could not load Zillow data.")
    /\ pc' = "returned"
    /\ UNCHANGED <<session_state, home_df, rent_df, valid_data, latest_month,
                   national_df, results, selected, model, deal>>
    /\ UNCHANGED call_params
    /\ UNCHANGED adjustment
    /\ UNCHANGED files
    /\ UNCHANGED last_call
    /\ UNCHANGED widgets

\* line 277
prepare ==
    /\ pc = "loaded"
    /\ ~data_missing(home_df, rent_df)
    /\ LET r == prepare_merged_data(home_df, rent_df)
       IN  /\ valid_data' = r.data
           /\ latest_month' = r.month
    /\ pc' = "prepared"
    /\ UNCHANGED <<session_state, home_df, rent_df, national_df, results,
                   selected, model, deal, screen>>
    /\ UNCHANGED call_params
    /\ UNCHANGED adjustment
    /\ UNCHANGED files
    /\ UNCHANGED last_call
    /\ UNCHANGED widgets

\* lines 278-280
merge_failed ==
    /\ pc = "prepared"
    /\ merge_missing(valid_data)
    /\ screen' = Append(screen, "error: Could not merge Zillow data.")
    /\ pc' = "returned"
    /\ UNCHANGED <<session_state, home_df, rent_df, valid_data, latest_month,
                   national_df, results, selected, model, deal>>
    /\ UNCHANGED call_params
    /\ UNCHANGED adjustment
    /\ UNCHANGED files
    /\ UNCHANGED last_call
    /\ UNCHANGED widgets

\* line 282; selecting the column None raises KeyError
national_training ==
    /\ pc = "prepared"
    /\ ~merge_missing(valid_data)
    /\ IF IsNone(latest_month)
       THEN /\ screen' = Append(screen, "exception: KeyError")
            /\ pc' = "crashed"
            /\ UNCHANGED national_df
       ELSE IF national_raises(home_df, rent_df, latest_month.val)
       THEN /\ screen' = Append(screen, "exception: TypeError")
            /\ pc' = "crashed"
            /\ UNCHANGED national_df
       ELSE /\ national_df' =
                   Some(get_national_training_data(home_df, rent_df, latest_month.val))
            /\ pc' = "trained"
            /\ UNCHANGED screen
    /\ UNCHANGED <<session_state, home_df, rent_df, valid_data, latest_month,
                   results, selected, model, deal>>
    /\ UNCHANGED call_params
    /\ UNCHANGED adjustment
    /\ UNCHANGED files
    /\ UNCHANGED last_call
    /\ UNCHANGED widgets

\* lines 283-285
compute_metrics ==
    /\ pc = "trained"
    /\ call_params' = Some(params_of(session_state))
    /\ results' = Some(calculate_financial_metrics(valid_data.val,
                                                   params_of(session_state)))
    /\ pc' = "computed"
    /\ UNCHANGED <<session_state, home_df, rent_df, valid_data, latest_month,
                   national_df, selected, model, deal, screen>>
    /\ UNCHANGED adjustment
    /\ UNCHANGED files
    /\ UNCHANGED last_call
    /\ UNCHANGED widgets

\* lines 297-303
select_view ==
    /\ pc = "computed"
    /\ \E i \in 1..Len(tab_labels) : selected' = tab_labels[i]
    /\ pc' = "view"
    /\ UNCHANGED <<session_state, home_df, rent_df, valid_data, latest_month,
                   national_df, results, model, deal, screen>>
    /\ UNCHANGED call_params
    /\ UNCHANGED adjustment
    /\ UNCHANGED files
    /\ UNCHANGED last_call
    /\ UNCHANGED widgets

\* lines 305-346: the three top-10 bar charts
view_chart ==
    /\ pc = "view"
    /\ selected \in {"Basic Cash on Cash", "First-Year ROI", "Total Return"}
    /\ screen' = Append(screen, "chart: top ZIPs")
    /\ pc' = "done"
    /\ UNCHANGED <<session_state, home_df, rent_df, valid_data, latest_month,
                   national_df, results, selected, model, deal>>
    /\ UNCHANGED call_params
    /\ UNCHANGED adjustment
    /\ UNCHANGED files
    /\ UNCHANGED last_call
    /\ UNCHANGED widgets

\* lines 347-423: int(results["Home_Price"].min()) raises on an empty table
view_explorer ==
    /\ pc = "view"
    /\ selected = "Data Explorer"
    /\ IF results.val = <<>>
       THEN /\ screen' = Append(screen, "exception: ValueError")
            /\ pc' = "crashed"
       ELSE /\ screen' = Append(screen, "table: Data Explorer")
            /\ pc' = "done"
    /\ UNCHANGED <<session_state, home_df, rent_df, valid_data, latest_month,
                   national_df, results, selected, model, deal>>
    /\ UNCHANGED call_params
    /\ UNCHANGED adjustment
    /\ UNCHANGED files
    /\ UNCHANGED last_call
    /\ UNCHANGED widgets

\* lines 428-449: the Rent Estimator fits the model or reports that it cannot
estimator_fit ==
    /\ pc = "view"
    /\ selected = "Rent Estimator"
    /\ IF estimator_can_fit(national_df)
       THEN /\ model' = fit(national_df.val)
            /\ screen' = Append(screen, "caption: National Rent Model")
       ELSE /\ screen' = Append(screen, "info: National trend model could not be created")
            /\ UNCHANGED model
    /\ pc' = "estimator_local"
    /\ UNCHANGED <<session_state, home_df, rent_df, valid_data, latest_month,
                   national_df, results, selected, deal>>
    /\ UNCHANGED call_params
    /\ UNCHANGED adjustment
    /\ UNCHANGED files
    /\ UNCHANGED last_call
    /\ UNCHANGED widgets

\* lines 457-521: the local prediction and the trend line read slope_nat and
\* intercept_nat, which are unbound locals when the fit was skipped
estimator_local ==
    /\ pc = "estimator_local"
    /\ LET citywide_data ==
               SelectSeq(results.val, LAMBDA r : ~(isna(r.Zip_Label) \/ isna(r.Home_Price)
                                               \/ isna(r.Rent)))
       IN  IF Len(citywide_data) >= 10
           THEN /\ model' = read_model(model, "Predicted_Rent_National")
                /\ IF model.fitted
                   THEN /\ screen' = Append(screen, "chart: ZIPs vs national trend")
                        /\ pc' = "estimator_zip"
                   ELSE /\ screen' = Append(screen, "exception: UnboundLocalError")
                        /\ pc' = "crashed"
           ELSE /\ screen' = Append(screen, "info: Not enough local ZIP data")
                /\ pc' = "estimator_zip"
                /\ UNCHANGED model
    /\ UNCHANGED <<session_state, home_df, rent_df, valid_data, latest_month,
                   national_df, results, selected, deal>>
    /\ UNCHANGED call_params
    /\ UNCHANGED adjustment
    /\ UNCHANGED files
    /\ UNCHANGED last_call
    /\ UNCHANGED widgets

\* lines 529-588: st.selectbox over no ZIP returns None and None.split raises
estimator_zip ==
    /\ pc = "estimator_zip"
    /\ IF results.val = <<>>
       THEN /\ screen' = Append(screen, "exception: AttributeError")
            /\ pc' = "crashed"
       ELSE /\ screen' = Append(screen, "chart: rent trend of the ZIP")
            /\ pc' = "done"
    /\ UNCHANGED <<session_state, home_df, rent_df, valid_data, latest_month,
                   national_df, results, selected, model, deal>>
    /\ UNCHANGED call_params
    /\ UNCHANGED adjustment
    /\ UNCHANGED files
    /\ UNCHANGED last_call
    /\ UNCHANGED widgets

\* the ZIP codes the model types into the Deal Analyzer: none, a local one,
\* one that needs padding
ZipInputs == {<<>>, Str(80903), Str(1001)}

RECURSIVE GCD(_, _)
GCD(a, b) == IF b = 0 THEN a ELSE GCD(b, a % b)

\* a / b for a >= 0 and b > 0 as the fraction in lowest terms: the quotient
\* is 1.0 exactly when it is 1/1 (a float64 quotient a / b is 1.0 only for
\* a = b)
FRatio(a, b) == [num |-> a \div GCD(a, b), den |-> b \div GCD(a, b)]

\* the float 1.0
One == [num |-> 1, den |-> 1]

\* what np.exp(intercept_nat + slope_nat * np.log(price)) can give for the
\* price of a ZIP whose rent is `actual`: the coefficients of the fit are
\* not kept, so the value is drawn: the rent itself, a lower and a higher
\* value, and 0 (exp underflows); exp gives no negative value
Predictions(actual) ==
    {actual, actual - Dollars(100), actual + Dollars(250), 0}

\* actual // expected in place of actual / expected
adjustment_ratio_floor(actual, expected) ==
    IF expected > 0 THEN FRatio(actual \div expected, 1) ELSE One

\* line 158: adjustment_ratio = actual / expected if expected > 0 else 1.0
adjustment_ratio(actual, expected) ==
    IF expected > 0 THEN FRatio(actual, expected) ELSE One

\* run_deal_analyzer_tab lines 132-170: fit and predict, or report
deal_fit ==
    /\ pc = "view"
    /\ selected = "Deal Analyzer"
    /\ IF deal_can_fit(national_df)
       THEN \E zip_input \in ZipInputs :
               LET fitted == read_model(fit(national_df.val), "base_rent")
                   padded == zfill(zip_input, 5)
                   local_rents ==
                       SelectSeq(national_df.val, LAMBDA r : r.Zip_Code = padded)
               IN  IF zip_input # <<>> /\ local_rents # <<>>
                   THEN /\ model' = read_model(fitted, "adjustment_ratio")
                        /\ \E expected \in Predictions(local_rents[1].Rent.val) :
                              LET actual == local_rents[1].Rent.val
                              IN  adjustment' =
                                     Some([zip |-> padded, actual |-> actual,
                                           expected |-> expected,
                                           ratio |-> adjustment_ratio(actual, expected)])
                        /\ screen' = screen \o <<"success: ZIP Adjustment Applied",
                                                 "success: Predicted Rent">>
                   ELSE /\ model' = fitted
                        /\ screen' = Append(screen, "success: Predicted Rent")
                        /\ UNCHANGED adjustment
       ELSE /\ screen' = Append(screen, "info: National rent model unavailable (insufficient data).")
            /\ UNCHANGED <<model, adjustment>>
    /\ pc' = "deal_inputs"
    /\ UNCHANGED <<session_state, home_df, rent_df, valid_data, latest_month,
                   national_df, results, selected, deal>>
    /\ UNCHANGED call_params
    /\ UNCHANGED files
    /\ UNCHANGED last_call
    /\ UNCHANGED widgets

\* what the model enters in the Deal Analyzer
DealPrices == {Dollars(250000), Dollars(400000)}
DealRents == {Dollars(1800), Dollars(2500)}
DealDownPayments == {0, Pct(20), Pct(25)}

\* run_deal_analyzer_tab lines 172-242
deal_compute ==
    /\ pc = "deal_inputs"
    /\ \E home_price_input \in DealPrices, rent_input \in DealRents,
          down_payment_pct \in DealDownPayments :
          deal' = deal_returns(home_price_input, rent_input, down_payment_pct,
                               session_state)
    /\ IF deal'.outcome = "rendered"
       THEN /\ screen' = Append(screen, "metrics: Deal Summary")
            /\ pc' = "done"
       ELSE /\ screen' = Append(screen, "exception: ZeroDivisionError")
            /\ pc' = "crashed"
    /\ UNCHANGED <<session_state, home_df, rent_df, valid_data, latest_month,
                   national_df, results, selected, model>>
    /\ UNCHANGED call_params
    /\ UNCHANGED adjustment
    /\ UNCHANGED files
    /\ UNCHANGED last_call
    /\ UNCHANGED widgets

Next ==
    \/ create_sidebar
    \/ load_data
    \/ load_failed
    \/ prepare
    \/ merge_failed
    \/ national_training
    \/ compute_metrics
    \/ select_view
    \/ view_chart
    \/ view_explorer
    \/ estimator_fit
    \/ estimator_local
    \/ estimator_zip
    \/ deal_fit
    \/ deal_compute

Spec == Init /\ [][Next]_vars

-----------------------------------------------------------------------------
(* The metrics engine and the Deal Analyzer's return computation called on *)
(* their own, on every assumption set and table of the sets below          *)

MaxRows == 2

InterestRates == {0, Pct(6), Pct(7)}
DownPayments == {0, Pct(20), Pct(25)}
ClosingCosts == {0, Pct(2)}
\* horizons of the sidebar's slider (1..30) and one year past the loan's term
Horizons == {1, 5, 30, 30 + 1}

Assumptions ==
    { [defaults EXCEPT !.interest_rate = ir, !.down_payment_pct = dp,
                       !.closing_cost_pct = cc, !.appreciation_years = y] :
        ir \in InterestRates, dp \in DownPayments, cc \in ClosingCosts,
        y \in Horizons }

\* rows as prepare_merged_data returns them
ValidRow(i, price, rent) ==
    [Zip_Code |-> Str(names[i][1]), Zip_Label |-> map_names(Str(names[i][1])),
     Price_raw |-> Num(price), Rent_raw |-> Num(rent),
     Home_Price |-> Num(price), Rent |-> Num(rent)]

ValidRows ==
    { ValidRow(1, Dollars(250000), Dollars(1800)),
      ValidRow(2, Dollars(400000), Dollars(2500)) }

ValidTables == UNION { [1..n -> ValidRows] : n \in 1..MaxRows }

MetricsInit ==
    /\ pc = "call"
    /\ session_state \in Assumptions
    /\ valid_data \in {Some(t) : t \in ValidTables}
    /\ home_df = None
    /\ rent_df = None
    /\ latest_month = None
    /\ national_df = None
    /\ call_params = None
    /\ results = None
    /\ selected = "Deal Analyzer"
    /\ model = NoModel
    /\ deal = NoDeal
    /\ screen = <<>>
    /\ adjustment = None
    /\ files = NoFiles
    /\ last_call = None
    /\ widgets = NoWidgets

\* results = calculate_financial_metrics(valid_data, params)
call_metrics ==
    /\ pc = "call"
    /\ call_params' = Some(params_of(session_state))
    /\ results' = Some(calculate_financial_metrics(valid_data.val,
                                                   params_of(session_state)))
    /\ pc' = "called"
    /\ UNCHANGED <<session_state, home_df, rent_df, valid_data, latest_month,
                   national_df, selected, model, deal, screen>>
    /\ UNCHANGED adjustment
    /\ UNCHANGED files
    /\ UNCHANGED last_call
    /\ UNCHANGED widgets

\* the Deal Analyzer's computation for a price, a rent and a down payment
call_deal ==
    /\ pc = "called"
    /\ \E home_price_input \in DealPrices, rent_input \in DealRents,
          down_payment_pct \in DealDownPayments :
          deal' = deal_returns(home_price_input, rent_input, down_payment_pct,
                               session_state)
    /\ pc' = "analyzed"
    /\ UNCHANGED <<session_state, home_df, rent_df, valid_data, latest_month,
                   national_df, results, selected, model, screen>>
    /\ UNCHANGED call_params
    /\ UNCHANGED adjustment
    /\ UNCHANGED files
    /\ UNCHANGED last_call
    /\ UNCHANGED widgets

\* the user moves the down-payment and closing-cost sliders after the call:
\* session state changes, the params dict of the call does not
move_sliders ==
    /\ pc = "called"
    /\ \E c \in SidebarChoices :
          session_state' = [session_state EXCEPT !.down_payment_pct = Pct(c[1]),
                                                 !.closing_cost_pct = Pct(c[2])]
    /\ pc' = "moved"
    /\ UNCHANGED <<home_df, rent_df, valid_data, latest_month, national_df,
                   call_params, results, selected, model, deal, screen>>
    /\ UNCHANGED adjustment
    /\ UNCHANGED files
    /\ UNCHANGED last_call
    /\ UNCHANGED widgets

\* calculate_financial_metrics(valid_data, params) called again with the
\* arguments of the first call
call_metrics_again ==
    /\ pc = "moved"
    /\ results' = Some(calculate_financial_metrics(valid_data.val, call_params.val))
    /\ pc' = "called_again"
    /\ UNCHANGED <<session_state, home_df, rent_df, valid_data, latest_month,
                   national_df, call_params, selected, model, deal, screen>>
    /\ UNCHANGED adjustment
    /\ UNCHANGED files
    /\ UNCHANGED last_call
    /\ UNCHANGED widgets

MetricsNext == call_metrics \/ call_deal \/ move_sliders \/ call_metrics_again

SpecMetrics == MetricsInit /\ [][MetricsNext]_vars

-----------------------------------------------------------------------------
(* data_fetcher.py called on its own: any sequence of calls of             *)
(* download_if_missing and fetch_if_missing on a data directory that holds *)
(* any of the files at the start                                           *)

\* the calls of the __main__ block, and one on a path fetch_if_missing writes
DownloadCalls ==
    { [url |-> rent_url, save_path |-> rent_path],
      [url |-> home_url, save_path |-> home_path],
      [url |-> home_url,
       save_path |-> join("data", REQUIRED_FILES[1].filename)] }

FetchInit ==
    /\ pc = "fetcher"
    /\ session_state = defaults
    /\ valid_data = None
    /\ home_df = None
    /\ rent_df = None
    /\ latest_month = None
    /\ national_df = None
    /\ call_params = None
    /\ results = None
    /\ selected = "Deal Analyzer"
    /\ model = NoModel
    /\ deal = NoDeal
    /\ screen = <<>>
    /\ adjustment = None
    /\ files \in [Paths -> {Absent, Original}]
    /\ last_call = None
    /\ widgets = NoWidgets

\* download_if_missing(url, save_path)
call_download ==
    /\ pc = "fetcher"
    /\ \E c \in DownloadCalls, o \in Outcomes :
          LET r == download_if_missing(files, c.url, c.save_path, o)
          IN  /\ files' = r.fs
              /\ last_call' = Some([fn |-> "download_if_missing",
                                    targets |-> <<c.save_path>>,
                                    before |-> files,
                                    attempts |-> r.attempts,
                                    returned |-> r.returned])
    /\ UNCHANGED <<pc, session_state, home_df, rent_df, valid_data,
                   latest_month, national_df, call_params, results, selected,
                   model, deal, screen, adjustment>>
    /\ UNCHANGED widgets

\* fetch_if_missing(): data_dir = "data", the function returns None
call_fetch ==
    /\ pc = "fetcher"
    /\ \E outcomes \in [1..Len(REQUIRED_FILES) -> Outcomes] :
          LET r == fetch_if_missing(files, "data", outcomes)
          IN  /\ files' = r.fs
              /\ last_call' = Some([fn |-> "fetch_if_missing",
                                    targets |-> [i \in 1..Len(REQUIRED_FILES) |->
                                        join("data", REQUIRED_FILES[i].filename)],
                                    before |-> files,
                                    attempts |-> r.attempts,
                                    returned |-> None])
    /\ UNCHANGED <<pc, session_state, home_df, rent_df, valid_data,
                   latest_month, national_df, call_params, results, selected,
                   model, deal, screen, adjustment>>
    /\ UNCHANGED widgets

FetchNext == call_download \/ call_fetch

SpecFetch == FetchInit /\ [][FetchNext]_vars

-----------------------------------------------------------------------------
(* The sidebar over successive runs of the script: the first run of a      *)
(* session, then one run for each thing the user does (moves a slider,     *)
(* presses Reset to Defaults), each ending with the params dict of main    *)

\* positions the user moves a slider keyed by its session key to
DirectMoves ==
    { <<"down_payment_pct", Pct(0)>>, <<"down_payment_pct", Pct(20)>>,
      <<"closing_cost_pct", Pct(0)>>, <<"closing_cost_pct", Pct(2)>>,
      <<"interest_rate", Pct(6)>>, <<"interest_rate", Pct(7)>>,
      <<"appreciation_years", 30>>, <<"appreciation_years", 5>> }

\* positions the user moves a percent slider to: its default and one other
PercentMoves ==
    { <<k, to_percent(defaults[k])>> : k \in percent_keys }
        \cup { <<"maintenance_rate", Pct(3)>>, <<"vacancy_rate", Pct(10)>>,
               <<"property_mgmt_pct", Pct(0)>>, <<"structure_pct", Pct(70)>> }

SidebarInit ==
    /\ pc = "first"
    /\ session_state = defaults
    /\ widgets = NoWidgets
    /\ valid_data = None
    /\ home_df = None
    /\ rent_df = None
    /\ latest_month = None
    /\ national_df = None
    /\ call_params = None
    /\ results = None
    /\ selected = "Deal Analyzer"
    /\ model = NoModel
    /\ deal = NoDeal
    /\ screen = <<>>
    /\ adjustment = None
    /\ files = NoFiles
    /\ last_call = None

\* one run of the script from session state ss and sliders ws: the
\* setdefault loop of lines 65-66 finds every key, create_sidebar(), and
\* params = {k: st.session_state[k] for k in defaults}
script_run(ss, ws, pressed) ==
    /\ \E by_key \in BOOLEAN :
          LET after == sidebar(ss, ws, pressed, by_key)
          IN  /\ session_state' = after.session_state
              /\ widgets' = after.widgets
              /\ call_params' = Some(params_of(after.session_state))
    /\ pc' = IF pressed THEN "reset" ELSE "ran"
    /\ UNCHANGED <<home_df, rent_df, valid_data, latest_month, national_df,
                   results, selected, model, deal, screen, adjustment, files,
                   last_call>>

\* the first run of the session
first_run ==
    /\ pc = "first"
    /\ script_run(session_state, widgets, FALSE)

\* the user moves a slider whose key is a session key: Streamlit stores the
\* position under the key and runs the script
slider_moved ==
    /\ pc \in {"ran", "reset"}
    /\ \E mv \in DirectMoves :
          script_run([session_state EXCEPT ![mv[1]] = mv[2]], widgets, FALSE)

\* the user moves a percent slider: Streamlit stores the position under the
\* slider's own key and runs the script
percent_slider_moved ==
    /\ pc \in {"ran", "reset"}
    /\ \E mv \in PercentMoves :
          script_run(session_state,
                     [widgets EXCEPT ![mv[1]] =
                         Some([state |-> mv[2], arg |-> widgets[mv[1]].val.arg])],
                     FALSE)

\* the user presses Reset to Defaults: the button returns True in the run
reset_pressed ==
    /\ pc \in {"ran", "reset"}
    /\ script_run(session_state, widgets, TRUE)

SidebarNext == first_run \/ slider_moved \/ percent_slider_moved \/ reset_pressed

SpecSidebar == SidebarInit /\ [][SidebarNext]_vars

-----------------------------------------------------------------------------
(* Claims about the metrics engine and the Deal Analyzer (SpecMetrics)     *)

ResultRows == IF IsNone(results) THEN <<>> ELSE results.val

\* the Deal Analyzer rendered its metrics for the price and rent of this
\* engine row, under the engine's down payment
SameDeal(row) ==
    /\ pc = "analyzed"
    /\ deal.outcome = "rendered"
    /\ deal.down_payment_pct = session_state.down_payment_pct
    /\ row.Home_Price = Num(deal.home_price)
    /\ row.Rent = Num(deal.rent)

\* C1: with an interest rate of 0 the monthly payment of every row with a
\* positive loan amount is Loan_Amount / 360.
C1_ZeroRatePaymentIsLoanOverTerm ==
    session_state.interest_rate = 0 =>
        \A i \in 1..Len(ResultRows) :
            ResultRows[i].Loan_Amount.val > 0 =>
                ResultRows[i].mortgage = FOver(ResultRows[i].Loan_Amount, months)

\* C2: a row whose cash invested is 0 makes calculate_financial_metrics
\* signal DivisionByZero: no returned row has Cash_In = 0.
C2_ZeroCashInvestedIsSignalled ==
    \A i \in 1..Len(ResultRows) : ResultRows[i].Cash_In # Num(0)

\* C3: for the same price, rent and assumptions the Deal Analyzer's total
\* return and N-year ROI equal the engine's Total_Return and Total_ROC.
C3_DealTotalReturnMatchesEngine ==
    \A i \in 1..Len(ResultRows) :
        SameDeal(ResultRows[i]) =>
            /\ ResultRows[i].Total_Return = Num(deal.total_return)
            /\ ResultRows[i].Total_ROC = Num(deal.total_roc)

C14_OneRowPerInputRowInOrder ==
    (pc # "call" /\ ~IsNone(results)) =>
        /\ Len(ResultRows) = Len(valid_data.val)
        /\ \A i \in 1..Len(ResultRows) :
              /\ ResultRows[i].Zip_Code = valid_data.val[i].Zip_Code
              /\ ResultRows[i].Home_Price = valid_data.val[i].Home_Price
              /\ ResultRows[i].Rent = valid_data.val[i].Rent

C14_Witness ==
    /\ pc = "called"
    /\ Len(ResultRows) = 2
    /\ ResultRows[1].Home_Price.val > ResultRows[2].Home_Price.val
    /\ ResultRows[1].Basic_CoC.kind = "num"
    /\ ResultRows[2].Basic_CoC.kind = "num"

\* C15: a call of calculate_financial_metrics leaves the input table, the
\* params and the session state as they were, and a second call with the
\* arguments of the first returns the result of the first, whatever the
\* session state has become in between.
C15_MetricsIsPure ==
    [][ /\ (pc = "call" /\ pc' = "called") =>
              /\ valid_data' = valid_data
              /\ session_state' = session_state
              /\ call_params'.val = params_of(session_state)
        /\ (pc = "moved" /\ pc' = "called_again") =>
              /\ valid_data' = valid_data
              /\ session_state' = session_state
              /\ call_params' = call_params
              /\ results' = results ]_vars

C15_Witness ==
    /\ pc = "called_again"
    /\ call_params.val # params_of(session_state)
    /\ call_params.val.down_payment_pct # session_state.down_payment_pct
    /\ Len(ResultRows) = 2
    /\ ResultRows[1].Basic_CoC.kind = "num"

\* a <= b for two float cells; false when either is NaN
Leq(a, b) ==
    /\ a.kind \in {"num", "inf", "ninf"}
    /\ b.kind \in {"num", "inf", "ninf"}
    /\ \/ a.kind = "ninf"
       \/ b.kind = "inf"
       \/ a.kind = "num" /\ b.kind = "num" /\ a.val <= b.val

\* Basic_CoC and Advanced_CoC of row i do not fall when only the rent is
\* raised to `rent`
CoCRisesWithRent(i, rent) ==
    LET higher == metrics_row([valid_data.val[i] EXCEPT !.Rent = Num(rent)],
                              call_params.val)
    IN  /\ Leq(ResultRows[i].Basic_CoC, higher.Basic_CoC)
        /\ Leq(ResultRows[i].Advanced_CoC, higher.Advanced_CoC)

\* Basic_CoC and Advanced_CoC of row i do not rise when only the interest
\* rate is raised to `rate`
CoCFallsWithRate(i, rate) ==
    LET higher == metrics_row(valid_data.val[i],
                              [call_params.val EXCEPT !.interest_rate = rate])
    IN  /\ Leq(higher.Basic_CoC, ResultRows[i].Basic_CoC)
        /\ Leq(higher.Advanced_CoC, ResultRows[i].Advanced_CoC)

HigherRents == {Dollars(1801), Dollars(2500), Dollars(3000)}
HigherRates == InterestRates \cup {Pct(2), Pct(12)} \cup {Pct(6) + 1000}

\* C16: with the price and the other assumptions fixed, Basic_CoC and
\* Advanced_CoC are non-decreasing in Rent and non-increasing in
\* interest_rate.
C16_CoCMonotoneInRentAndRate ==
    pc = "called" =>
        \A i \in 1..Len(ResultRows) :
            /\ \A rent \in HigherRents :
                  rent > valid_data.val[i].Rent.val => CoCRisesWithRent(i, rent)
            /\ \A rate \in HigherRates :
                  rate > call_params.val.interest_rate => CoCFallsWithRate(i, rate)

\* the same statement for the calls with an interest rate above 0
C16_HoldsAboveZeroRate ==
    (pc = "called" /\ call_params.val.interest_rate > 0) => C16_CoCMonotoneInRentAndRate

\* what the cents and millionths of this arithmetic can add up to over 360
\* months of a loan of up to 400000 dollars; a month left out of the
\* schedule, or a payment of another term, moves the total by far more
RoundingTolerance == Dollars(100)

Within(a, b, tolerance) ==
    /\ a.kind = "num"
    /\ b.kind = "num"
    /\ a.val - b.val <= tolerance
    /\ b.val - a.val <= tolerance

\* C17: for a loan amount > 0 and a rate > 0, the month-by-month amortization
\* over the full 360 months with the 360-month payment pays the loan amount
\* and ends at balance 0, within rounding; with appreciation_years = 30,
\* Equity_From_Paydown = Loan_Amount.
C17_FullAmortizationPaysTheLoan ==
    ( /\ pc = "called"
      /\ call_params.val.appreciation_years = 30
      /\ call_params.val.interest_rate > 0 ) =>
        \A i \in 1..Len(ResultRows) :
            LET row == ResultRows[i]
                monthly_int == (call_params.val.interest_rate \div 100) \div 12
                run == amortize(row.Loan_Amount, Num(0), row.mortgage,
                                monthly_int, months)
            IN  row.Loan_Amount.val > 0 =>
                    /\ Within(row.Equity_From_Paydown, row.Loan_Amount, RoundingTolerance)
                    /\ Within(run.paid, row.Loan_Amount, RoundingTolerance)
                    /\ Within(run.bal, Num(0), RoundingTolerance)

C17_Witness ==
    /\ pc = "called"
    /\ call_params.val.appreciation_years = 30
    /\ call_params.val.interest_rate = Pct(7)
    /\ call_params.val.down_payment_pct = Pct(20)
    /\ Len(ResultRows) = 2
    /\ ResultRows[1].Loan_Amount = Num(Dollars(320000))
    /\ Within(ResultRows[1].Equity_From_Paydown, ResultRows[1].Loan_Amount,
              RoundingTolerance)

\* C18: Total_Return = Appreciation_Gain + Annual_CF * years + Tax_Savings *
\* years + the principal paid over years * 12 months, that principal and the
\* first year's both simulated with the one 360-month payment; Total_ROC =
\* Total_Return / Cash_In, as a percentage.
C18_TotalReturnComposition ==
    pc = "called" =>
        \A i \in 1..Len(ResultRows) :
            LET row == ResultRows[i]
                years == call_params.val.appreciation_years
                monthly_int == (call_params.val.interest_rate \div 100) \div 12
                payment == mortgage_payment(row.Loan_Amount, monthly_int)
                principal == amortize(row.Loan_Amount, Num(0), payment,
                                      monthly_int, years * 12).paid
                first_year == amortize(row.Loan_Amount, Num(0), payment,
                                       monthly_int, 12).paid
            IN  /\ row.mortgage = payment
                /\ row.Equity_From_Paydown = principal
                /\ row.principal_year1 = first_year
                /\ IF payment.kind = "num"
                   THEN /\ row.Total_Return.kind = "num"
                        /\ row.Total_Return.val =
                              row.Appreciation_Gain.val + row.Annual_CF.val * years
                              + row.Tax_Savings.val * years + principal.val
                        /\ IF row.Cash_In.val > 0
                           THEN row.Total_ROC =
                                   Num(MulDiv(row.Total_Return.val, RatioScale,
                                              row.Cash_In.val) * 100)
                           ELSE row.Total_ROC.kind \in {"inf", "ninf", "nan"}
                   ELSE /\ row.Total_Return.kind = "nan"
                        /\ row.Total_ROC.kind = "nan"

C18_Witness ==
    /\ pc = "called"
    /\ call_params.val.appreciation_years = 5
    /\ call_params.val.interest_rate = Pct(7)
    /\ Len(ResultRows) = 2
    /\ ResultRows[1].Total_Return.kind = "num"
    /\ ResultRows[1].Total_ROC.kind = "num"
    /\ ResultRows[1].Equity_From_Paydown.val > ResultRows[1].principal_year1.val
    /\ ResultRows[1].Equity_From_Paydown.val < ResultRows[1].Loan_Amount.val

\* one step of a percentage kept in hundredths of a percent
RatioStep == RateScale \div RatioScale

\* C19: for every row with Cash_In > 0, Advanced_CoC exceeds Basic_CoC by
\* (Tax_Savings + principal_year1) / Cash_In, as a percentage, and so
\* Advanced_CoC > Basic_CoC whenever Tax_Savings + principal_year1 > 0.
C19_FirstYearRoiExceedsBasicCoC ==
    pc = "called" =>
        \A i \in 1..Len(ResultRows) :
            LET row == ResultRows[i]
                added == row.Tax_Savings.val + row.principal_year1.val
                excess == row.Advanced_CoC.val - row.Basic_CoC.val
                share == MulDiv(added, RatioScale, row.Cash_In.val) * 100
            IN  row.Cash_In.val > 0 =>
                    IF row.principal_year1.kind = "num"
                    THEN /\ row.Basic_CoC.kind = "num"
                         /\ row.Advanced_CoC.kind = "num"
                         /\ excess - share <= RatioStep
                         /\ share - excess <= RatioStep
                         /\ added > 0 => excess > 0
                    ELSE /\ row.Basic_CoC.kind = "nan"
                         /\ row.Advanced_CoC.kind = "nan"

C19_Witness ==
    /\ pc = "called"
    /\ call_params.val = defaults
    /\ Len(ResultRows) = 1
    /\ ResultRows[1].Home_Price = Num(Dollars(400000))
    /\ ResultRows[1].Rent = Num(Dollars(2500))
    /\ ResultRows[1].Tax_Savings.val + ResultRows[1].principal_year1.val > 0
    /\ ResultRows[1].Advanced_CoC.val > ResultRows[1].Basic_CoC.val

\* C20: called with a down payment of 20%, calculate_financial_metrics
\* returns the Monthly_CF, Cash_In, Basic_CoC, Advanced_CoC,
\* Equity_From_Paydown and Total_ROC that the fixed 80% loan-to-value engine
\* of test_only.py returns for the same table and the same other assumptions.
C20_FixedLtvIsTheTwentyPercentCase ==
    (pc = "called" /\ call_params.val.down_payment_pct = Pct(20)) =>
        LET fixed == test_only_calculate_financial_metrics(valid_data.val,
                                                           call_params.val)
        IN  /\ Len(fixed) = Len(ResultRows)
            /\ \A i \in 1..Len(ResultRows) :
                  /\ ResultRows[i].Monthly_CF = fixed[i].Monthly_CF
                  /\ ResultRows[i].Cash_In = fixed[i].Cash_In
                  /\ ResultRows[i].Basic_CoC = fixed[i].Basic_CoC
                  /\ ResultRows[i].Advanced_CoC = fixed[i].Advanced_CoC
                  /\ ResultRows[i].Equity_From_Paydown = fixed[i].Equity_From_Paydown
                  /\ ResultRows[i].Total_ROC = fixed[i].Total_ROC

C20_Witness ==
    /\ pc = "called"
    /\ call_params.val.down_payment_pct = Pct(20)
    /\ call_params.val.interest_rate = Pct(6)
    /\ call_params.val.appreciation_years = 30
    /\ Len(ResultRows) = 2
    /\ ResultRows[2].Total_ROC.kind = "num"
    /\ ResultRows[2].Loan_Amount = Num(Dollars(200000))

-----------------------------------------------------------------------------
(* Claims about a run of main (Spec)                                       *)

ModelViews == {"Rent Estimator", "Deal Analyzer"}

\* the run is past the fit-or-report step of a view that uses the rent model
PastFit ==
    /\ selected \in ModelViews
    /\ pc \in {"estimator_local", "estimator_zip", "deal_inputs", "done", "crashed"}

NationalRows == IF IsNone(national_df) THEN <<>> ELSE national_df.val
ValidRowsOut == IF IsNone(valid_data) THEN <<>> ELSE valid_data.val

\* C5: every computation that reads the model's slope and intercept happens
\* after a successful fit of this run, and a run whose fit was skipped
\* attempts no such computation and does not fail on the missing model.
C5_ModelReadOnlyAfterFit ==
    /\ \A i \in 1..Len(model.reads) : model.reads[i].fitted
    /\ ~(pc = "crashed" /\ screen[Len(screen)] = "exception: UnboundLocalError")

\* C6: the rent model is fit exactly when the national training set has at
\* least 100 rows; with fewer rows no model exists and the view reports that
\* the model is unavailable.
C6_FitExactlyWithEnoughRows ==
    PastFit =>
        /\ model.fitted <=> Len(NationalRows) >= 100
        /\ model.fitted => model.sample_size = Len(NationalRows)
        /\ ~model.fitted =>
              \E i \in 1..Len(screen) :
                  screen[i] \in
                      {"info: National trend model could not be created",
                       "info: National rent model unavailable (insufficient data)."}

C6_Witness ==
    /\ selected = "Rent Estimator"
    /\ pc = "estimator_local"
    /\ model.fitted
    /\ Len(NationalRows) = 100

PreparationErrors ==
    {"error: Could not load Zillow data.", "error: Could not merge Zillow data."}

\* C7: when load_data failed, or prepare_merged_data reported no common
\* period, main returns without calling get_national_training_data or
\* calculate_financial_metrics and renders nothing but the error.
C7_NoOutputAfterPreparationFailure ==
    LET load_failure ==
            pc \notin {"start", "sidebar"} /\ (IsNone(home_df) \/ IsNone(rent_df))
        merge_failure ==
            pc \notin {"start", "sidebar", "loaded"} /\ IsNone(valid_data)
    IN  (load_failure \/ merge_failure) =>
            /\ pc \in {"loaded", "prepared", "returned"}
            /\ IsNone(national_df)
            /\ IsNone(results)
            /\ ~model.fitted
            /\ deal = NoDeal
            /\ \A i \in 1..Len(screen) : screen[i] \in PreparationErrors
            /\ pc = "returned" => Len(screen) = 1

C7_Witness ==
    /\ pc = "returned"
    /\ ~IsNone(home_df)
    /\ ~IsNone(rent_df)
    /\ IsNone(valid_data)
    /\ screen = <<"error: Could not merge Zillow data.">>

\* a column name with exactly two hyphens
TwoHyphens(col) == Cardinality({i \in 1..Len(col) : col[i] = "-"}) = 2

CommonDateColumns ==
    {col \in Range(home_df.columns) \cap Range(rent_df.columns) : TwoHyphens(col)}

Prepared == pc \notin {"start", "sidebar", "loaded"} /\ ~IsNone(home_df)

\* C8: prepare_merged_data returns (None, None) exactly when the two tables
\* have no date column in common, and a table with a period otherwise.
C8_NoneExactlyWithoutCommonDate ==
    Prepared =>
        /\ IsNone(valid_data) <=> CommonDateColumns = {}
        /\ IsNone(latest_month) <=> IsNone(valid_data)

C8_Witness ==
    /\ Prepared
    /\ IsNone(valid_data)
    /\ IsNone(latest_month)
    /\ Month25 \in Range(home_df.columns) \cap Range(rent_df.columns)

\* the number a string of digits writes
RECURSIVE NumberOf(_)
NumberOf(digits) ==
    IF digits = <<>> THEN 0
    ELSE 10 * NumberOf(SubSeq(digits, 1, Len(digits) - 1))
         + (Code(digits[Len(digits)]) - 2)

\* year, month and day of a date column, as one number that orders the dates
DateNumber(col) ==
    NumberOf(SubSeq(col, 1, 4)) * 10000 + NumberOf(SubSeq(col, 6, 7)) * 100
    + NumberOf(SubSeq(col, 9, 10))

\* C9: the period returned is a date column of both tables, no common date
\* column is later, and Home_Price and Rent of every output row are the
\* values of that column in the home and the rent table.
C9_PeriodIsLatestCommonDate ==
    (Prepared /\ ~IsNone(valid_data)) =>
        LET month == latest_month.val
        IN  /\ month \in CommonDateColumns
            /\ \A col \in CommonDateColumns : DateNumber(col) <= DateNumber(month)
            /\ \A i \in 1..Len(ValidRowsOut) :
                  /\ \E h \in 1..Len(home_df.rows) :
                        /\ Str(home_df.rows[h].RegionName) = ValidRowsOut[i].Zip_Code
                        /\ home_df.rows[h].cells[month] = ValidRowsOut[i].Home_Price
                  /\ \E r \in 1..Len(rent_df.rows) :
                        /\ Str(rent_df.rows[r].RegionName) = ValidRowsOut[i].Zip_Code
                        /\ rent_df.rows[r].cells[month] = ValidRowsOut[i].Rent

C9_Witness ==
    /\ pc = "prepared"
    /\ ~IsNone(valid_data)
    /\ Len(ValidRowsOut) >= 2
    /\ latest_month.val = Sep25
    /\ Oct25 \in Range(home_df.columns)
    /\ Dec24 \in CommonDateColumns

\* C10: every row prepare_merged_data returns has Home_Price > 0 and
\* Rent > 0.
C10_PreparedRowsArePositive ==
    \A i \in 1..Len(ValidRowsOut) :
        /\ ValidRowsOut[i].Home_Price.val > 0
        /\ ValidRowsOut[i].Rent.val > 0

\* the pairs of rows line 57 joins, before line 62 drops any
JoinedPairs ==
    merge(filter_and_label_zips(home_df).rows, filter_and_label_zips(rent_df).rows)

AtPrepared == pc = "prepared" /\ ~IsNone(valid_data)

\* C11 (as claimed): the keys are zero-padded to width 5 before the join, so
\* every joined key and every Zip_Code of the output has width 5.
C11_KeysPaddedBeforeJoin ==
    AtPrepared =>
        LET pairs == JoinedPairs
        IN  /\ \A i \in 1..Len(pairs) : Len(pairs[i].l.Zip_Code) = 5
            /\ \A i \in 1..Len(ValidRowsOut) : Len(ValidRowsOut[i].Zip_Code) = 5

\* C11 (amended): prepare_merged_data joins on str(RegionName) without
\* padding. For integer keys it joins a home and a rent record exactly when
\* their zero-padded keys are equal; a joined key is the unpadded string; and
\* every Zip_Code of the output has width 5 and is a key of the label map,
\* the rows of other keys being dropped for their missing label.
C11_JoinOnUnpaddedKey ==
    AtPrepared =>
        LET pairs == JoinedPairs
            home_keys == [h \in 1..Len(home_df.rows) |->
                            zfill(Str(home_df.rows[h].RegionName), 5)]
            rent_keys == [r \in 1..Len(rent_df.rows) |->
                            zfill(Str(rent_df.rows[r].RegionName), 5)]
            equal_keys == {hr \in (1..Len(home_keys)) \X (1..Len(rent_keys)) :
                              home_keys[hr[1]] = rent_keys[hr[2]]}
        IN  /\ Len(pairs) = Cardinality(equal_keys)
            /\ \A i \in 1..Len(pairs) :
                  /\ zfill(pairs[i].l.Zip_Code, 5) = zfill(pairs[i].r.Zip_Code, 5)
                  /\ \E h \in 1..Len(home_df.rows) :
                        pairs[i].l.Zip_Code = Str(home_df.rows[h].RegionName)
            /\ \A i \in 1..Len(ValidRowsOut) :
                  /\ Len(ValidRowsOut[i].Zip_Code) = 5
                  /\ \E k \in 1..Len(names) :
                        Str(names[k][1]) = ValidRowsOut[i].Zip_Code

C11_Witness ==
    /\ AtPrepared
    /\ Len(ValidRowsOut) >= 2
    /\ LET pairs == JoinedPairs
       IN  \E i \in 1..Len(pairs) : Len(pairs[i].l.Zip_Code) = 4
    /\ \A i \in 1..Len(ValidRowsOut) : Len(ValidRowsOut[i].Zip_Code) = 5

\* a cell that holds a number
Numeric(cell) == cell.kind = "num"

\* C12: a record whose price or rent at the period is missing or not a
\* number is in no row of the output of prepare_merged_data, and every
\* labelled record whose price and rent are numbers is in the output with
\* these values, whatever the other records hold.
C12_MissingOrNonNumericDropped ==
    AtPrepared =>
        LET month == latest_month.val
        IN  /\ \A i \in 1..Len(ValidRowsOut) :
                  /\ Numeric(ValidRowsOut[i].Price_raw)
                  /\ Numeric(ValidRowsOut[i].Rent_raw)
                  /\ Numeric(ValidRowsOut[i].Home_Price)
                  /\ Numeric(ValidRowsOut[i].Rent)
            /\ \A h \in 1..Len(home_df.rows), r \in 1..Len(rent_df.rows) :
                  ( /\ home_df.rows[h].RegionName = rent_df.rows[r].RegionName
                    /\ \E k \in 1..Len(names) : names[k][1] = home_df.rows[h].RegionName
                    /\ Numeric(home_df.rows[h].cells[month])
                    /\ Numeric(rent_df.rows[r].cells[month]) )
                  => \E i \in 1..Len(ValidRowsOut) :
                        /\ ValidRowsOut[i].Zip_Code = Str(home_df.rows[h].RegionName)
                        /\ ValidRowsOut[i].Home_Price = home_df.rows[h].cells[month]
                        /\ ValidRowsOut[i].Rent = rent_df.rows[r].cells[month]

C12_Witness ==
    /\ AtPrepared
    /\ home_df.rows[1].cells[latest_month.val].kind = "txt"
    /\ Len(ValidRowsOut) >= 2
    /\ \A i \in 1..Len(ValidRowsOut) :
          ValidRowsOut[i].Zip_Code # Str(home_df.rows[1].RegionName)

\* C13: get_national_training_data returns a table for the period; each of
\* its rows has a key of both tables with that period's Home_Price > 0 and
\* Rent > 0, and every key of the two full tables with a positive price and
\* a positive rent is in it.
C13_NationalSetIsPositiveJoin ==
    (pc \in {"trained", "crashed"} /\ ~IsNone(latest_month)) =>
        /\ ~IsNone(national_df)
        /\ LET month == latest_month.val
               Positive(cell) == cell.kind = "num" /\ cell.val > 0
           IN  /\ \A i \in 1..Len(NationalRows) :
                     /\ Positive(NationalRows[i].Home_Price)
                     /\ Positive(NationalRows[i].Rent)
                     /\ \E h \in 1..Len(home_df.rows) :
                           /\ zfill(Str(home_df.rows[h].RegionName), 5) = NationalRows[i].Zip_Code
                           /\ home_df.rows[h].cells[month] = NationalRows[i].Home_Price
                     /\ \E r \in 1..Len(rent_df.rows) :
                           /\ zfill(Str(rent_df.rows[r].RegionName), 5) = NationalRows[i].Zip_Code
                           /\ rent_df.rows[r].cells[month] = NationalRows[i].Rent
               /\ \A h \in 1..Len(home_df.rows), r \in 1..Len(rent_df.rows) :
                     ( /\ home_df.rows[h].RegionName = rent_df.rows[r].RegionName
                       /\ Positive(home_df.rows[h].cells[month])
                       /\ Positive(rent_df.rows[r].cells[month]) )
                     => \E i \in 1..Len(NationalRows) :
                           NationalRows[i].Zip_Code = zfill(Str(home_df.rows[h].RegionName), 5)

\* the same statement for the runs in which no cell of the period is text
C13_HoldsOnNumericColumns ==
    (pc \in {"trained", "crashed"} /\ ~IsNone(latest_month)) =>
        \/ \E h \in 1..Len(home_df.rows) :
               home_df.rows[h].cells[latest_month.val].kind = "txt"
        \/ C13_NationalSetIsPositiveJoin

\* C21: the ZIP adjustment ratio is 1.0 exactly when the ZIP's actual rent
\* equals the model's prediction at its home price, or the prediction is
\* zero (where 1.0 is used); otherwise it is actual / predicted.
C21_RatioIsOneExactlyOnAMatch ==
    ~IsNone(adjustment) =>
        LET a == adjustment.val
        IN  /\ a.ratio = One <=> (a.actual = a.expected \/ a.expected = 0)
            /\ a.expected > 0 => a.ratio.num * a.expected = a.ratio.den * a.actual

C21_Witness ==
    /\ ~IsNone(adjustment)
    /\ adjustment.val.expected > 0
    /\ adjustment.val.expected < adjustment.val.actual
    /\ adjustment.val.ratio # One
    /\ "success: ZIP Adjustment Applied" \in Range(screen)

-----------------------------------------------------------------------------
(* The amortization loops                                                  *)

\* C22: for every call of calculate_financial_metrics with an integer
\* appreciation_years >= 1, each amortization loop runs at most 360
\* iterations (the first-year loop and the horizon loop both).
C22_LoopsRunAtMostTheTerm ==
    (pc = "called" /\ call_params.val.appreciation_years >= 1) =>
        /\ principal_year1_iterations(call_params.val) <= months
        /\ total_principal_iterations(call_params.val) <= months

\* with the horizon inside the sidebar slider's range (1..30) the loops stay
\* within the term
C22_HoldsWithinSliderRange ==
    (pc = "called" /\ call_params.val.appreciation_years \in 1..30) =>
        /\ principal_year1_iterations(call_params.val) <= months
        /\ total_principal_iterations(call_params.val) <= months

-----------------------------------------------------------------------------
(* Claims about data_fetcher.py (SpecFetch)                                *)

\* the paths the last call sent a request for
Requested == {last_call.val.attempts[i].path : i \in 1..Len(last_call.val.attempts)}

\* the last call was download_if_missing
Downloaded == ~IsNone(last_call) /\ last_call.val.fn = "download_if_missing"

\* the last call downloaded the file and wrote it to its target
WroteTheFile ==
    LET c == last_call.val
    IN  /\ Len(c.attempts) = 1
        /\ c.attempts[1].outcome = "ok"
        /\ files[c.targets[1]] = c.attempts[1].url

\* C23: download_if_missing returns True exactly when it downloaded and
\* wrote the file during the call, and returns False exactly when a file
\* already existed at save_path before the call.
C23_ReturnTellsWhatHappened ==
    Downloaded =>
        LET c == last_call.val
        IN  /\ c.returned = TRUE <=> WroteTheFile
            /\ c.returned = FALSE <=> c.before[c.targets[1]] # Absent

\* the half that holds: True exactly when the file was downloaded and
\* written, and False whenever a file was there before
C23_TrueExactlyOnDownload ==
    Downloaded =>
        LET c == last_call.val
        IN  /\ c.returned = TRUE <=> WroteTheFile
            /\ c.before[c.targets[1]] # Absent => c.returned = FALSE

\* C24: both functions download a file only if it is not already present:
\* for a file that exists at the target path before a call, whatever calls
\* came earlier, the call makes no request and leaves the file as it was.
C24_ExistingFileIsLeftAlone ==
    ~IsNone(last_call) =>
        LET c == last_call.val
        IN  \A p \in Paths :
                c.before[p] # Absent => (p \notin Requested /\ files[p] = c.before[p])

\* fetch_if_missing found the first file in place, kept it and downloaded
\* the second, after an earlier call had already run
C24_Witness ==
    /\ ~IsNone(last_call) /\ last_call.val.fn = "fetch_if_missing"
    /\ LET c == last_call.val
       IN  /\ c.before[c.targets[1]] = home_url
           /\ files[c.targets[1]] = home_url
           /\ c.before[c.targets[2]] = Absent
           /\ files[c.targets[2]] = rent_index_url
           /\ Requested = {c.targets[2]}

\* C30: after a download attempt that fails (request error, bad status or
\* write error) no file is left at the target path, so that a later call
\* with the same arguments attempts the download again.
C30_FailedDownloadLeavesNoFile ==
    ~IsNone(last_call) =>
        LET c == last_call.val
        IN  \A i \in 1..Len(c.attempts) :
                c.attempts[i].outcome # "ok" => files[c.attempts[i].path] = Absent

\* the failures that come before open() leave no file
C30_HoldsBeforeTheFileIsOpened ==
    ~IsNone(last_call) =>
        LET c == last_call.val
        IN  \A i \in 1..Len(c.attempts) :
                c.attempts[i].outcome \in {"request_error", "bad_status", "open_error"}
                    => files[c.attempts[i].path] = Absent

\* every failure is swallowed and fetch_if_missing goes on to the remaining
\* files: each target that was absent before the call was attempted
C30_FailureDoesNotStopTheLoop ==
    (~IsNone(last_call) /\ last_call.val.fn = "fetch_if_missing") =>
        LET c == last_call.val
        IN  \A i \in 1..Len(c.targets) :
                c.before[c.targets[i]] = Absent => c.targets[i] \in Requested

-----------------------------------------------------------------------------
(* The payment formula on the worked example, and the amortization loops   *)
(* month by month (SpecMetrics)                                            *)

\* the payment of the example to the cent, as the formula gives it in
\* floating point (2128.97), and the figure 2129.27
ExamplePayment == Num(Dollars(2128) + 97)
QuotedPayment == Num(Dollars(2129) + 27)

\* ten cents: the fixed-point payment is within 7 cents of the float one
PaymentTolerance == Dollars(1) \div 10

\* the rows of the example: price 400000, 20% down, 7% interest
IsExample(row) ==
    /\ pc = "called"
    /\ call_params.val.interest_rate = Pct(7)
    /\ call_params.val.down_payment_pct = Pct(20)
    /\ row.Home_Price = Num(Dollars(400000))

\* C25 as stated: for price 400000 with 20% down (loan 320000), 7% annual
\* interest and the 360-month term, the monthly payment of the engine's
\* formula is approximately 2129.27.
C25_ExamplePaymentAsQuoted ==
    \A i \in 1..Len(ResultRows) :
        IsExample(ResultRows[i]) =>
            /\ ResultRows[i].Loan_Amount = Num(Dollars(320000))
            /\ Within(ResultRows[i].mortgage, QuotedPayment, PaymentTolerance)

\* C25: for price 400000 with 20% down (loan 320000), 7% annual interest
\* and the 360-month term, the monthly payment of the engine's formula is
\* approximately 2128.97.
C25_ExamplePayment ==
    \A i \in 1..Len(ResultRows) :
        IsExample(ResultRows[i]) =>
            /\ ResultRows[i].Loan_Amount = Num(Dollars(320000))
            /\ Within(ResultRows[i].mortgage, ExamplePayment, PaymentTolerance)

C25_Witness ==
    /\ Len(ResultRows) = 1
    /\ IsExample(ResultRows[1])
    /\ call_params.val.appreciation_years = 1
    /\ ResultRows[1].mortgage.kind = "num"
    /\ ResultRows[1].mortgage.val > Dollars(2128)
    /\ ResultRows[1].mortgage.val < Dollars(2129)

\* monthly_int of the call
MonthlyInt == (call_params.val.interest_rate \div 100) \div 12

\* paid + bal is the loan
Balanced(r, Loan_Amount) ==
    /\ r.paid.kind = "num" /\ r.bal.kind = "num" /\ Loan_Amount.kind = "num"
    /\ r.paid.val + r.bal.val = Loan_Amount.val

\* Balanced after each of the n iterations that start from (bal, paid)
RECURSIVE BalancedEveryMonth(_, _, _, _, _, _)
BalancedEveryMonth(Loan_Amount, bal, paid, pmt, monthly_int, n) ==
    IF n = 0 THEN TRUE
    ELSE IF n = 1
         THEN Balanced(amortize(bal, paid, pmt, monthly_int, 1), Loan_Amount)
    ELSE LET half == amortize(bal, paid, pmt, monthly_int, n \div 2)
         IN  /\ BalancedEveryMonth(Loan_Amount, bal, paid, pmt, monthly_int, n \div 2)
             /\ BalancedEveryMonth(Loan_Amount, half.bal, half.paid, pmt,
                                   monthly_int, n - n \div 2)

\* C26: in both amortization loops (12 months and appreciation_years * 12
\* months), after every simulated month the principal paid so far plus the
\* remaining balance equals the row's Loan_Amount.
C26_PaidPlusBalanceIsTheLoan ==
    pc = "called" =>
        \A i \in 1..Len(ResultRows) :
            LET row == ResultRows[i]
            IN  /\ BalancedEveryMonth(row.Loan_Amount, row.Loan_Amount, Num(0),
                                      row.mortgage, MonthlyInt,
                                      principal_year1_iterations(call_params.val))
                /\ BalancedEveryMonth(row.Loan_Amount, row.Loan_Amount, Num(0),
                                      row.mortgage, MonthlyInt,
                                      total_principal_iterations(call_params.val))

\* with a positive interest rate, where the payment is a number, the sum
\* is the loan after every month of both loops
C26_HoldsAboveZeroRate ==
    (pc = "called" /\ call_params.val.interest_rate > 0) =>
        \A i \in 1..Len(ResultRows) :
            LET row == ResultRows[i]
            IN  /\ BalancedEveryMonth(row.Loan_Amount, row.Loan_Amount, Num(0),
                                      row.mortgage, MonthlyInt,
                                      principal_year1_iterations(call_params.val))
                /\ BalancedEveryMonth(row.Loan_Amount, row.Loan_Amount, Num(0),
                                      row.mortgage, MonthlyInt,
                                      total_principal_iterations(call_params.val))

\* in each of the n iterations that start from (bal, paid) the principal
\* portion pmt - bal * monthly_int is positive and the balance it leaves is
\* at least `floor`
RECURSIVE SoundEveryMonth(_, _, _, _, _, _)
SoundEveryMonth(bal, paid, pmt, monthly_int, n, floor) ==
    IF n = 0 THEN TRUE
    ELSE IF n = 1
         THEN LET princ_pmt == FSub(pmt, FMulRate(bal, monthly_int))
                  after == amortize(bal, paid, pmt, monthly_int, 1)
              IN  /\ princ_pmt.kind = "num" /\ princ_pmt.val > 0
                  /\ after.bal.kind = "num" /\ after.bal.val >= floor
    ELSE LET half == amortize(bal, paid, pmt, monthly_int, n \div 2)
         IN  /\ SoundEveryMonth(bal, paid, pmt, monthly_int, n \div 2, floor)
             /\ SoundEveryMonth(half.bal, half.paid, pmt, monthly_int,
                                n - n \div 2, floor)

\* the principal paid in the first y years of the loan of `row`
PaidIn(row, y) ==
    amortize(row.Loan_Amount, Num(0), row.mortgage, MonthlyInt, y * 12).paid

\* a call inside the premises: positive rate, horizon of at most 360 months
WithinTheTerm ==
    /\ pc = "called"
    /\ call_params.val.interest_rate > 0
    /\ total_principal_iterations(call_params.val) <= months

\* C27: for a positive interest rate, a positive loan and a horizon of at
\* most 360 months, every simulated month's principal portion is positive
\* and the balance never becomes negative, so Equity_From_Paydown lies
\* between 0 and Loan_Amount and is non-decreasing in appreciation_years.
\* The balance is compared with zero exactly in every month before the
\* last of the term; the last payment brings it to zero up to rounding
\* (RoundingTolerance), and so Equity_From_Paydown to Loan_Amount.
C27_PaydownStaysWithinTheLoan ==
    WithinTheTerm =>
        \A i \in 1..Len(ResultRows) :
            LET row == ResultRows[i]
                n == total_principal_iterations(call_params.val)
                years == call_params.val.appreciation_years
                before_last == IF n < months THEN n ELSE months - 1
                at_last == amortize(row.Loan_Amount, Num(0), row.mortgage,
                                    MonthlyInt, months - 1)
            IN  row.Loan_Amount.val > 0 =>
                    /\ SoundEveryMonth(row.Loan_Amount, Num(0), row.mortgage,
                                       MonthlyInt, before_last, 0)
                    /\ n = months =>
                           SoundEveryMonth(at_last.bal, at_last.paid, row.mortgage,
                                           MonthlyInt, 1, 0 - RoundingTolerance)
                    /\ row.Equity_From_Paydown.kind = "num"
                    /\ row.Equity_From_Paydown.val >= 0
                    /\ n < months => row.Equity_From_Paydown.val <= row.Loan_Amount.val
                    /\ row.Equity_From_Paydown.val
                           <= row.Loan_Amount.val + RoundingTolerance
                    /\ row.Equity_From_Paydown = PaidIn(row, years)
                    /\ \A y \in 1..(years - 1) :
                           PaidIn(row, y).val <= PaidIn(row, y + 1).val

C27_Witness ==
    /\ WithinTheTerm
    /\ call_params.val.interest_rate = Pct(6)
    /\ call_params.val.appreciation_years = 5
    /\ Len(ResultRows) = 2
    /\ ResultRows[2].Loan_Amount.val > 0
    /\ ResultRows[2].principal_year1.val > 0
    /\ ResultRows[2].Equity_From_Paydown.val > ResultRows[2].principal_year1.val
    /\ ResultRows[2].Equity_From_Paydown.val < ResultRows[2].Loan_Amount.val

-----------------------------------------------------------------------------
(* Claims about the label map and the sidebar (Spec)                       *)

\* the ZIP code is a key of `names`
Labelled(zip) == \E k \in 1..Len(names) : names[k][1] = zip

\* C28: every row of the output of prepare_merged_data has a ZIP code that
\* is a key of the label map of filter_and_label_zips; a record whose ZIP is
\* not in the map has a missing Zip_Label and is removed by the final
\* dropna, even when its price and rent are valid.
C28_OnlyLabelledZipsSurvive ==
    AtPrepared =>
        LET month == latest_month.val
        IN  /\ \A i \in 1..Len(ValidRowsOut) :
                  /\ \E k \in 1..Len(names) :
                        Str(names[k][1]) = ValidRowsOut[i].Zip_Code
                  /\ ValidRowsOut[i].Zip_Label.kind = "str"
            /\ \A h \in 1..Len(home_df.rows) :
                  ~Labelled(home_df.rows[h].RegionName) =>
                      /\ map_names(Str(home_df.rows[h].RegionName)) = NaN
                      /\ \A i \in 1..Len(ValidRowsOut) :
                            ValidRowsOut[i].Zip_Code # Str(home_df.rows[h].RegionName)

\* a ZIP outside the map with a valid price and a valid rent in the period,
\* present in both tables, and an output that kept other rows
C28_Witness ==
    /\ AtPrepared
    /\ Len(ValidRowsOut) >= ManyLocal
    /\ \E h \in 1..Len(home_df.rows), r \in 1..Len(rent_df.rows) :
          /\ home_df.rows[h].RegionName = rent_df.rows[r].RegionName
          /\ ~Labelled(home_df.rows[h].RegionName)
          /\ Numeric(home_df.rows[h].cells[latest_month.val])
          /\ home_df.rows[h].cells[latest_month.val].val > 0
          /\ Numeric(rent_df.rows[r].cells[latest_month.val])
          /\ rent_df.rows[r].cells[latest_month.val].val > 0

\* C29: in a run where Reset to Defaults is pressed, the params passed to
\* calculate_financial_metrics equal the defaults for every key, including
\* maintenance_rate, vacancy_rate, property_mgmt_pct and structure_pct,
\* whatever the slider positions were in earlier runs.
C29_ResetRestoresEveryDefault ==
    pc = "reset" => call_params.val = defaults

\* the keys whose slider is keyed by the session key itself are restored
C29_HoldsForDirectlyKeyedSliders ==
    pc = "reset" =>
        \A k \in DOMAIN defaults \ percent_keys : call_params.val[k] = defaults[k]

=============================================================================
